---- MODULE Spec2Model ----
(***************************************************************************)
(* Linear Problem Parser (lpp): text of a linear program -> (MinMax, c, A,  *)
(* Eqin, b, naturalConstraints), and the primal-to-dual conversion.        *)
(*                                                                         *)
(* A Python str is modelled as a sequence of one-character strings, so     *)
(* that the regular expressions of the source are computed character by    *)
(* character.  A numpy array is a record [kind, shape, data] with the data *)
(* in row-major order; a Python list of numbers has kind "list".           *)
(***************************************************************************)
EXTENDS Integers, Sequences, FiniteSets, TLC

(***************************************************************************)
(* Characters                                                              *)
(***************************************************************************)
UpperCase == << "A","B","C","D","E","F","G","H","I","J","K","L","M",
                "N","O","P","Q","R","S","T","U","V","W","X","Y","Z" >>
LowerCase == << "a","b","c","d","e","f","g","h","i","j","k","l","m",
                "n","o","p","q","r","s","t","u","v","w","x","y","z" >>
DigitChars == << "0","1","2","3","4","5","6","7","8","9" >>

UpperSet == { UpperCase[i] : i \in 1..26 }
LowerSet == { LowerCase[i] : i \in 1..26 }
DigitSet == { DigitChars[i] : i \in 1..10 }

\* str.lower() on one character; also the folding done by re.IGNORECASE
Lower(ch) ==
  IF ch \in UpperSet THEN LowerCase[CHOOSE i \in 1..26 : UpperCase[i] = ch]
  ELSE ch

LowerStr(s) == [i \in 1..Len(s) |-> Lower(s[i])]

\* \s of the re module
IsSpace(ch) == ch \in {" ", "\n", "\t", "\r", "\f"}
\* \d of the re module
IsDigit(ch) == ch \in DigitSet
\* \w of the re module
IsWord(ch) == ch \in UpperSet \cup LowerSet \cup DigitSet \cup {"_"}

DigitVal(ch) == (CHOOSE i \in 1..10 : DigitChars[i] = ch) - 1

\* code point of a character, for the characters a variable name or a
\* signed literal can contain: the order Python compares str by
Ord(ch) ==
  IF ch \in DigitSet THEN 48 + DigitVal(ch)
  ELSE IF ch \in UpperSet THEN 64 + (CHOOSE i \in 1..26 : UpperCase[i] = ch)
  ELSE IF ch \in LowerSet THEN 96 + (CHOOSE i \in 1..26 : LowerCase[i] = ch)
  ELSE IF ch = "+" THEN 43
  ELSE IF ch = "-" THEN 45
  ELSE IF ch = " " THEN 32
  ELSE 10

\* s < t for Python str: lexicographic by code point, a proper prefix first
StrLess(s, t) ==
  \/ /\ Len(s) < Len(t)
     /\ \A i \in 1..Len(s) : s[i] = t[i]
  \/ \E k \in 1..Len(s) :
       /\ k <= Len(t)
       /\ \A i \in 1..(k-1) : s[i] = t[i]
       /\ Ord(s[k]) < Ord(t[k])

(***************************************************************************)
(* Small string helpers                                                    *)
(***************************************************************************)
RECURSIVE Concat(_)
Concat(ss) == IF ss = <<>> THEN <<>> ELSE Head(ss) \o Concat(Tail(ss))

\* case-insensitive match of the (lower-case) literal lit at position p of s
MatchLit(s, p, lit) ==
  /\ p + Len(lit) - 1 <= Len(s)
  /\ \A i \in 1..Len(lit) : Lower(s[p + i - 1]) = lit[i]

\* number of consecutive \s characters of s starting at position p
RECURSIVE SpaceRun(_, _)
SpaceRun(s, p) ==
  IF p <= Len(s) /\ IsSpace(s[p]) THEN 1 + SpaceRun(s, p + 1) ELSE 0

\* number of consecutive \d characters of s starting at position p
RECURSIVE DigitRun(_, _)
DigitRun(s, p) ==
  IF p <= Len(s) /\ IsDigit(s[p]) THEN 1 + DigitRun(s, p + 1) ELSE 0

\* number of consecutive "\n" characters of s starting at position p
RECURSIVE NewlineRun(_, _)
NewlineRun(s, p) ==
  IF p <= Len(s) /\ s[p] = "\n" THEN 1 + NewlineRun(s, p + 1) ELSE 0

\* value of a non-empty string of decimal digits
RECURSIVE ToNat(_)
ToNat(ds) ==
  IF ds = <<>> THEN 0
  ELSE 10 * ToNat(SubSeq(ds, 1, Len(ds) - 1)) + DigitVal(ds[Len(ds)])

\* re.sub('\s+', '', s)
RECURSIVE RemoveSpace(_)
RemoveSpace(s) ==
  IF s = <<>> THEN <<>>
  ELSE IF IsSpace(Head(s)) THEN RemoveSpace(Tail(s))
  ELSE <<Head(s)>> \o RemoveSpace(Tail(s))

\* re.sub('\n+', '\n', s)
RECURSIVE CollapseNewlines(_, _)
CollapseNewlines(s, p) ==
  IF p > Len(s) THEN <<>>
  ELSE IF s[p] = "\n" THEN <<"\n">> \o CollapseNewlines(s, p + NewlineRun(s, p))
  ELSE <<s[p]>> \o CollapseNewlines(s, p + 1)

(***************************************************************************)
(* The regular expressions of the source.  PatLen(pat, s, p) is the length *)
(* of the match of pattern pat that starts at position p of s, 0 if there  *)
(* is none (no pattern below matches the empty string).                    *)
(***************************************************************************)
\* 's\.?t\.?' at p
StLen(s, p) ==
  IF ~MatchLit(s, p, <<"s">>) THEN 0
  ELSE LET d1 == IF MatchLit(s, p + 1, <<".">>) THEN 1 ELSE 0
           q  == p + 1 + d1
       IN IF ~MatchLit(s, q, <<"t">>) THEN 0
          ELSE 1 + d1 + 1 + (IF MatchLit(s, q + 1, <<".">>) THEN 1 ELSE 0)

\* 's\.?\s*t\.?' at p
StSpLen(s, p) ==
  IF ~MatchLit(s, p, <<"s">>) THEN 0
  ELSE LET d1 == IF MatchLit(s, p + 1, <<".">>) THEN 1 ELSE 0
           sp == SpaceRun(s, p + 1 + d1)
           q  == p + 1 + d1 + sp
       IN IF ~MatchLit(s, q, <<"t">>) THEN 0
          ELSE 1 + d1 + sp + 1 + (IF MatchLit(s, q + 1, <<".">>) THEN 1 ELSE 0)

\* 'subject\s*to' at p
SubjectToLen(s, p) ==
  IF ~MatchLit(s, p, <<"s","u","b","j","e","c","t">>) THEN 0
  ELSE LET sp == SpaceRun(s, p + 7)
       IN IF MatchLit(s, p + 7 + sp, <<"t","o">>) THEN 7 + sp + 2 ELSE 0

MaxLen(s, p)  == IF MatchLit(s, p, <<"m","a","x">>) THEN 3 ELSE 0
MinLen(s, p)  == IF MatchLit(s, p, <<"m","i","n">>) THEN 3 ELSE 0
WithLen(s, p) == IF MatchLit(s, p, <<"w","i","t","h">>) THEN 4 ELSE 0
EndLen(s, p)  == IF MatchLit(s, p, <<"e","n","d">>) THEN 3 ELSE 0

\* 's\.t\.' and 'st' at p, the two spellings lpp.py accepts
StDotsLen(s, p)  == IF MatchLit(s, p, <<"s", ".", "t", ".">>) THEN 4 ELSE 0
StPlainLen(s, p) == IF MatchLit(s, p, <<"s", "t">>) THEN 2 ELSE 0

\* the first alternative that matches wins
FirstOf(lens) ==
  IF \E i \in 1..Len(lens) : lens[i] > 0
  THEN lens[CHOOSE i \in 1..Len(lens) :
              lens[i] > 0 /\ \A j \in 1..(i-1) : lens[j] = 0]
  ELSE 0

PatLen(pat, s, p) ==
  CASE pat = "keywordPattern" ->
         FirstOf(<< MaxLen(s, p), MinLen(s, p), StLen(s, p),
                    SubjectToLen(s, p), WithLen(s, p), EndLen(s, p) >>)
    [] pat = "pattern" ->
         FirstOf(<< StSpLen(s, p), SubjectToLen(s, p),
                    WithLen(s, p), EndLen(s, p) >>)
    [] pat = "lpp.keywordPattern" ->
         FirstOf(<< MaxLen(s, p), MinLen(s, p), StDotsLen(s, p), StPlainLen(s, p),
                    SubjectToLen(s, p), WithLen(s, p), EndLen(s, p) >>)
    [] pat = "lpp.pattern" ->
         FirstOf(<< StDotsLen(s, p), StPlainLen(s, p), SubjectToLen(s, p),
                    WithLen(s, p), EndLen(s, p) >>)
    [] pat = "lpp.st" ->
         FirstOf(<< StDotsLen(s, p), StPlainLen(s, p), SubjectToLen(s, p) >>)
    [] pat = "max|min" -> FirstOf(<< MaxLen(s, p), MinLen(s, p) >>)
    [] pat = "max" -> MaxLen(s, p)
    [] pat = "min" -> MinLen(s, p)
    [] pat = "st" -> FirstOf(<< StLen(s, p), SubjectToLen(s, p) >>)
    [] pat = "with" -> WithLen(s, p)
    [] pat = "end" -> EndLen(s, p)
    [] pat = "<=|=|>=" ->
         IF p + 1 <= Len(s) /\ s[p] = "<" /\ s[p+1] = "=" THEN 2
         ELSE IF p <= Len(s) /\ s[p] = "=" THEN 1
         ELSE IF p + 1 <= Len(s) /\ s[p] = ">" /\ s[p+1] = "=" THEN 2
         ELSE 0
    [] pat = "\n" -> IF p <= Len(s) /\ s[p] = "\n" THEN 1 ELSE 0

\* re.findall(pat, s), scanning from position p
RECURSIVE FindAllFrom(_, _, _)
FindAllFrom(pat, s, p) ==
  IF p > Len(s) THEN <<>>
  ELSE LET Step(n) ==
             IF n > 0
             THEN <<SubSeq(s, p, p + n - 1)>> \o FindAllFrom(pat, s, p + n)
             ELSE FindAllFrom(pat, s, p + 1)
       IN Step(PatLen(pat, s, p))

FindAll(pat, s) == FindAllFrom(pat, s, 1)

\* re.split(pat, s) and str.split(sep): from is the start of the current piece
RECURSIVE SplitFrom(_, _, _, _)
SplitFrom(pat, s, p, from) ==
  IF p > Len(s) THEN << SubSeq(s, from, Len(s)) >>
  ELSE LET Step(n) ==
             IF n > 0
             THEN << SubSeq(s, from, p - 1) >> \o SplitFrom(pat, s, p + n, p + n)
             ELSE SplitFrom(pat, s, p + 1, from)
       IN Step(PatLen(pat, s, p))

Split(pat, s) == SplitFrom(pat, s, 1, 1)

\* re.match(pat, s): a match at the beginning of s
ReMatch(pat, s) == PatLen(pat, s, 1) > 0

\* re.search(pat, s): a match anywhere in s
ReSearch(pat, s) == \E p \in 1..Len(s) : PatLen(pat, s, p) > 0

(***************************************************************************)
(* Results of a Python call: a value, or the exception it raised.         *)
(***************************************************************************)
NoError == [kind |-> "none", line |-> 0, text |-> <<>>, term |-> <<>>]
Error(kind, line, text, term) ==
  [kind |-> kind, line |-> line, text |-> text, term |-> term]

Ok(v)    == [ok |-> TRUE,  val |-> v,    err |-> NoError]
Raise(e) == [ok |-> FALSE, val |-> <<>>, err |-> e]

(***************************************************************************)
(* numpy                                                                   *)
(***************************************************************************)
NdArray(shape, data) == [kind |-> "ndarray", shape |-> shape, data |-> data]
PyList(data)         == [kind |-> "list", shape |-> <<Len(data)>>, data |-> data]

\* numpy.array(aList) of a flat list of numbers
ArrayOfList(l) == NdArray(<<Len(l)>>, l)

\* numpy.array(rows) of a list of lists of numbers, all of length n: an
\* empty list gives shape (0,), m rows of length n give shape (m, n)
ArrayOfRows(rows) ==
  IF rows = <<>> THEN NdArray(<<0>>, <<>>)
  ELSE NdArray(<<Len(rows), Len(rows[1])>>, Concat(rows))

\* element [i][j] (1-based) of a two-dimensional array
At2(a, i, j) == a.data[(i - 1) * a.shape[2] + j]

(***************************************************************************)
(* termRe: an optional sign + or -, any number of digits (coefficient),    *)
(* then x or X and one or more digits (variable_name); each of the three   *)
(* groups may end in whitespace.  It is only ever applied to text all      *)
(* whitespace was removed from, where that whitespace matches nothing.     *)
(* A term is <<sign, coefficient, variable_name>>.                         *)
(***************************************************************************)
\* the match of termRe that starts at p: its length (0: none) and groups
TermAt(s, p) ==
  LET Name(sg, dr, vr) ==
        IF vr = 0 THEN [len |-> 0, term |-> <<>>]
        ELSE [len  |-> sg + dr + 1 + vr,
              term |-> << SubSeq(s, p, p + sg - 1),
                          SubSeq(s, p + sg, p + sg + dr - 1),
                          SubSeq(s, p + sg + dr, p + sg + dr + vr) >>]
      Coefficient(sg, dr) ==
        Name(sg, dr, IF p + sg + dr <= Len(s) /\ s[p + sg + dr] \in {"x", "X"}
                     THEN DigitRun(s, p + sg + dr + 1) ELSE 0)
      Sign(sg) == Coefficient(sg, DigitRun(s, p + sg))
  IN Sign(IF p <= Len(s) /\ s[p] \in {"+", "-"} THEN 1 ELSE 0)

\* termRe.findall(s), scanning from position p
RECURSIVE FindTermsFrom(_, _)
FindTermsFrom(s, p) ==
  IF p > Len(s) THEN <<>>
  ELSE LET Step(m) ==
             IF m.len > 0 THEN <<m.term>> \o FindTermsFrom(s, p + m.len)
             ELSE FindTermsFrom(s, p + 1)
       IN Step(TermAt(s, p))

termRe_findall(s) == FindTermsFrom(s, 1)

\* float(sign + coefficient) for sign in '', '+', '-' and a digit string
\* a faulty variant: the sign is dropped
UnsignedValue(sign, digits) == ToNat(digits)
\* the number written as a sign and digits
SignedValue(sign, digits) ==
  IF sign = <<"-">> THEN 0 - ToNat(digits) ELSE ToNat(digits)

(***************************************************************************)
(* dict: a sequence of [k, v] entries in insertion order (Python >= 3.7)   *)
(***************************************************************************)
DictOf(keys, v) == [i \in 1..Len(keys) |-> [k |-> keys[i], v |-> v]]
DictHas(d, k) == \E i \in 1..Len(d) : d[i].k = k
\* a faulty variant: the value is added to the one the key has
DictAdd(d, k, v) ==
  IF DictHas(d, k)
  THEN [i \in 1..Len(d) |-> IF d[i].k = k THEN [k |-> k, v |-> d[i].v + v] ELSE d[i]]
  ELSE Append(d, [k |-> k, v |-> v])
\* d[k] = v
DictSet(d, k, v) ==
  IF DictHas(d, k)
  THEN [i \in 1..Len(d) |-> IF d[i].k = k THEN [k |-> k, v |-> v] ELSE d[i]]
  ELSE Append(d, [k |-> k, v |-> v])
DictValues(d) == [i \in 1..Len(d) |-> d[i].v]
DictKeys(d) == [i \in 1..Len(d) |-> d[i].k]

(***************************************************************************)
(* extractors.coefficientsExtractor                                        *)
(***************************************************************************)
\* the test of the loop that decides a term is a product of two variables
IsNonLinearTerm(terms, i) == terms[i] # terms[1] /\ terms[i][1] = <<>>

\* the loop over the terms, from term i on, with the dictionary so far
RECURSIVE CoefficientsLoop(_, _, _, _)
CoefficientsLoop(clean, terms, i, signedCoefficients) ==
  IF i > Len(terms) THEN Ok(DictValues(signedCoefficients))
  ELSE IF IsNonLinearTerm(terms, i)
  THEN Raise(Error("NonLinearTerm", 0, clean, Concat(terms[i])))
  ELSE CoefficientsLoop(clean, terms, i + 1,
         DictSet(signedCoefficients, terms[i][3],
                 SignedValue(terms[i][1],
                             IF terms[i][2] = <<>> THEN <<"1">> ELSE terms[i][2])))

coefficientsExtractor(expression, vars) ==
  LET Parse(clean) ==
        CoefficientsLoop(clean, termRe_findall(clean), 1, DictOf(vars, 0))
  IN Parse(RemoveSpace(expression))

(***************************************************************************)
(* extractors.discoverVariables / discoverProblemVariables                 *)
(***************************************************************************)
\* the loop over the terms of one expression; varSet is the set so far
RECURSIVE DiscoverTerms(_, _, _, _)
DiscoverTerms(clean, terms, i, varSet) ==
  IF i > Len(terms) THEN Ok(varSet)
  ELSE IF IsNonLinearTerm(terms, i)
  THEN Raise(Error("NonLinearTerm", 0, clean, Concat(terms[i])))
  ELSE DiscoverTerms(clean, terms, i + 1, varSet \cup {terms[i][3]})

\* aList is what the for loop iterates over: the elements of a list, or the
\* characters of a str
RECURSIVE discoverVariables(_, _)
discoverVariables(aList, varSet) ==
  IF aList = <<>> THEN Ok(varSet)
  ELSE LET Rest(r) == IF r.ok THEN discoverVariables(Tail(aList), r.val) ELSE r
           Scan(clean) ==
             Rest(DiscoverTerms(clean, termRe_findall(clean), 1, varSet))
       IN Scan(RemoveSpace(Head(aList)))

\* iterating a str yields its characters, each a str of length one
IterStr(s) == [i \in 1..Len(s) |-> << s[i] >>]

\* a faulty variant: the names in order of length first
RECURSIVE SortedByLength(_)
SortedByLength(S) ==
  IF S = {} THEN <<>>
  ELSE LET Put(least) == <<least>> \o SortedByLength(S \ {least})
       IN Put(CHOOSE x \in S : \A y \in S \ {x} :
                \/ Len(x) < Len(y)
                \/ Len(x) = Len(y) /\ StrLess(x, y))
\* sorted(aSet) for a set of str
RECURSIVE Sorted(_)
Sorted(S) ==
  IF S = {} THEN <<>>
  ELSE LET Put(least) == <<least>> \o Sorted(S \ {least})
       IN Put(CHOOSE x \in S : \A y \in S \ {x} : StrLess(x, y))

discoverProblemVariables(problem) ==
  LET Return(r) == IF r.ok THEN Ok(Sorted(r.val)) ELSE r
      Constraints(r, A) == Return(IF r.ok THEN discoverVariables(A, r.val) ELSE r)
      Sections(c, A) == Constraints(discoverVariables(IterStr(c), {}), A)
  IN Sections(problem[1], Split("\n", problem[2]))

(***************************************************************************)
(* lpIO.sanityCheck and lpIO.openLP                                        *)
(***************************************************************************)
MissingDirection == Error("MissingDirectionKeyword", 0, <<>>, <<>>)
MissingSection   == Error("MissingSectionKeyword", 0, <<>>, <<>>)
MissingEnd       == Error("MissingEndKeyword", 0, <<>>, <<>>)
IndexError       == Error("IndexError", 0, <<>>, <<>>)
ValueError       == Error("ValueError", 0, <<>>, <<>>)
TypeError        == Error("TypeError", 0, <<>>, <<>>)

sanityCheck(problem) ==
  LET Check(keywords, n) ==
        IF n = 0 THEN Raise(IndexError)
        ELSE IF ~ReMatch("max|min", keywords[1]) THEN Raise(MissingDirection)
        ELSE IF ~(n >= 2 /\ ReMatch("st", keywords[2])) THEN Raise(MissingSection)
        ELSE IF n = 4 /\ ReMatch("with", keywords[3])
             THEN IF ~ReMatch("end", keywords[4]) THEN Raise(MissingEnd)
                  ELSE Ok(TRUE)
        ELSE IF n = 3 /\ ~ReMatch("end", keywords[3]) THEN Raise(MissingEnd)
        ELSE Ok(FALSE)
      Found(keywords) == Check(keywords, Len(keywords))
  IN Found(FindAll("keywordPattern", problem))

\* the first k elements of a list: aList[:k]
Take(l, k) == SubSeq(l, 1, IF k < Len(l) THEN k ELSE Len(l))

\* openLP on the content of the file: <<list of segments, flag>>
openLP(fileContent) ==
  LET Cut(hasNaturalConstraints, segmentedList) ==
        IF hasNaturalConstraints THEN Ok(<< Take(segmentedList, 3), TRUE >>)
        ELSE Ok(<< Take(segmentedList, 2), FALSE >>)
      Checked(r) ==
        IF ~r.ok THEN r ELSE Cut(r.val, Split("pattern", fileContent))
  IN Checked(sanityCheck(fileContent))

(***************************************************************************)
(* extractors.MinMaxExtractor and extractors.cVectorExctactor              *)
(***************************************************************************)
MinMaxExtractor(problem) ==
  IF ReSearch("max", problem[1]) THEN Ok(1)
  ELSE IF ReSearch("min", problem[1]) THEN Ok(-1)
  ELSE Raise(Error("UnknownProblemType", 0, <<>>, <<>>))

cVectorExctactor(problem, vars) ==
  LET Return(r) == IF r.ok THEN Ok(ArrayOfList(r.val)) ELSE r
      Second(segmentedList) ==
        IF Len(segmentedList) < 2 THEN Raise(IndexError)
        ELSE Return(coefficientsExtractor(segmentedList[2], vars))
  IN Second(Split("max|min", problem[1]))

(***************************************************************************)
(* extractors.constraintsExtractor                                         *)
(***************************************************************************)
\* str.strip() of the whitespace characters
RECURSIVE StripLeft(_)
StripLeft(s) ==
  IF s # <<>> /\ IsSpace(Head(s)) THEN StripLeft(Tail(s)) ELSE s
RECURSIVE StripRight(_)
StripRight(s) ==
  IF s # <<>> /\ IsSpace(s[Len(s)]) THEN StripRight(SubSeq(s, 1, Len(s) - 1))
  ELSE s

\* float(s) for the literals of this model's alphabet: surrounding
\* whitespace, an optional sign and one or more digits; anything else is a
\* ValueError
ParseFloat(s) ==
  LET Number(sign, ds) ==
        IF ds # <<>> /\ DigitRun(ds, 1) = Len(ds)
        THEN Ok(SignedValue(sign, ds))
        ELSE Raise(ValueError)
      Signed(t, sg) == Number(SubSeq(t, 1, sg), SubSeq(t, sg + 1, Len(t)))
      Stripped(t) == Signed(t, IF t # <<>> /\ t[1] \in {"+", "-"} THEN 1 ELSE 0)
  IN Stripped(StripRight(StripLeft(s)))

\* a faulty variant: the codes of <= and >= exchanged
EqinCodeExchanged(op) ==
  IF op = <<"<", "=">> THEN 1 ELSE IF op = <<"=">> THEN 0 ELSE -1
\* the relation code of a matched operator
EqinCode(op) ==
  IF op = <<"<", "=">> THEN -1 ELSE IF op = <<"=">> THEN 0 ELSE 1

\* the locals A, b and EqinTemp of constraintsExtractor
ConstraintLocals(A, b, EqinTemp) == [A |-> A, b |-> b, EqinTemp |-> EqinTemp]

\* a faulty variant: only a line without an operator is malformed
IsMalformedOnlyWithoutOperator(constraint) == Len(constraint) = 0
\* the test on the operators found in a line
IsMalformedConstraint(constraint) == Len(constraint) # 1

\* a faulty variant: a right part is never taken to be missing
HasRightPartAlways(right) == FALSE
\* the test on the right part of a line: Ab[1] == ''
HasNoRightPart(right) == right = <<>>

\* the body of the for loop, from expression number constraintNo on: the
\* locals when the loop ends, or the exception it raises with the locals
\* at that point
RECURSIVE ConstraintsLoop(_, _, _, _)
ConstraintsLoop(expressions, constraintNo, vars, loc) ==
  IF constraintNo > Len(expressions) THEN [Ok(<<>>) EXCEPT !.val = loc]
  ELSE
    LET RaiseWith(e, A, EqinTemp) ==
          [Raise(e) EXCEPT !.val = ConstraintLocals(A, loc.b, EqinTemp)]
        Right(right, A, EqinTemp) ==
          IF ~right.ok THEN RaiseWith(right.err, A, EqinTemp)
          ELSE ConstraintsLoop(expressions, constraintNo + 1, vars,
                 ConstraintLocals(A, Append(loc.b, right.val), EqinTemp))
        Left(left, Ab, EqinTemp) ==
          IF ~left.ok THEN RaiseWith(left.err, loc.A, EqinTemp)
          ELSE IF \A k \in 1..Len(left.val) : left.val[k] = 0
          THEN RaiseWith(Error("EmptyLeftSide", constraintNo, <<>>, <<>>),
                         loc.A, EqinTemp)
          ELSE IF HasNoRightPart(Ab[2])
          THEN RaiseWith(Error("EmptyRightSide", constraintNo, <<>>, <<>>),
                         Append(loc.A, left.val), EqinTemp)
          ELSE Right(ParseFloat(Ab[2]), Append(loc.A, left.val), EqinTemp)
        Parts(expression, Ab, EqinTemp) ==
          Left(coefficientsExtractor(Ab[1], vars), Ab, EqinTemp)
        Found(expression, constraint) ==
          IF IsMalformedConstraint(constraint)
          THEN RaiseWith(Error("MalformedConstraint", constraintNo, expression, <<>>),
                         loc.A, Append(loc.EqinTemp, constraint))
          ELSE Parts(expression, Split("<=|=|>=", expression),
                     Append(loc.EqinTemp, constraint))
        Body(expression) == Found(expression, FindAll("<=|=|>=", expression))
    IN Body(expressions[constraintNo])

\* aList[:-1]
AllButLast(l) == SubSeq(l, 1, Len(l) - 1)

\* re.sub('\n+', '\n', section)
SectionAfterSub(section) == CollapseNewlines(section, 1)

\* [ok, err, val |-> <<A, Eqin, b>>, problem |-> the list problem after the
\*  call, locals |-> A, b and EqinTemp when the function was left]
constraintsExtractor(problem, vars) ==
  LET empty == ConstraintLocals(<<>>, <<>>, <<>>)
      Codes(EqinTemp) == [i \in 1..Len(EqinTemp) |-> EqinCode(EqinTemp[i][1])]
      Return(r, after) ==
        IF ~r.ok
        THEN [ok |-> FALSE, err |-> r.err, val |-> <<>>,
              problem |-> after, locals |-> r.val]
        ELSE [ok |-> TRUE, err |-> NoError,
              val |-> << ArrayOfRows(r.val.A),
                         NdArray(<<Len(r.val.EqinTemp), 1>>, Codes(r.val.EqinTemp)),
                         NdArray(<<Len(r.val.b), 1>>, r.val.b) >>,
              problem |-> after, locals |-> r.val]
      Cut(section) ==
        Return(ConstraintsLoop(AllButLast(Split("\n", section)), 1, vars, empty),
               [problem EXCEPT ![2] = section])
      Sub(section) ==
        IF section = <<>>
        THEN [ok |-> FALSE, err |-> IndexError, val |-> <<>>,
              problem |-> [problem EXCEPT ![2] = <<>>], locals |-> empty]
        ELSE Cut(IF section[1] = "\n" THEN Tail(section) ELSE section)
  IN Sub(SectionAfterSub(problem[2]))

(***************************************************************************)
(* extractors.naturalConstraintsExtractor                                  *)
(*                                                                         *)
(* constraintRe: optional whitespace, a group of any number of word        *)
(* characters, optional whitespace, a group that is <=, >= or free (any    *)
(* case), then the rest of the line.  The three repetitions are greedy and *)
(* give back characters until the operator matches.                        *)
(***************************************************************************)
RECURSIVE WordRun(_, _)
WordRun(s, p) ==
  IF p <= Len(s) /\ IsWord(s[p]) THEN 1 + WordRun(s, p + 1) ELSE 0

\* '<=|>=|free' at p, ignoring case
NatureLen(s, p) ==
  IF MatchLit(s, p, <<"<", "=">>) \/ MatchLit(s, p, <<">", "=">>) THEN 2
  ELSE IF MatchLit(s, p, <<"f", "r", "e", "e">>) THEN 4
  ELSE 0

\* the ways constraintRe matches at p: <<a, b, c>> are the lengths of the
\* leading whitespace, the word group and the inner whitespace
NatureSplits(s, p) ==
  { abc \in (0..SpaceRun(s, p)) \X (0..(Len(s) + 1 - p)) \X (0..(Len(s) + 1 - p)) :
      /\ abc[2] <= WordRun(s, p + abc[1])
      /\ abc[3] <= SpaceRun(s, p + abc[1] + abc[2])
      /\ NatureLen(s, p + abc[1] + abc[2] + abc[3]) > 0 }

\* the way the backtracking matcher finds first: the longest a, then b, then c
FirstSplit(S) ==
  CHOOSE x \in S : \A y \in S :
    \/ x[1] > y[1]
    \/ x[1] = y[1] /\ x[2] > y[2]
    \/ x[1] = y[1] /\ x[2] = y[2] /\ x[3] >= y[3]

\* position of the first "\n" at or after p, Len(s) + 1 if there is none
RECURSIVE LineEnd(_, _)
LineEnd(s, p) ==
  IF p > Len(s) \/ s[p] = "\n" THEN p ELSE LineEnd(s, p + 1)

\* re.findall(constraintRe, s) from position p: a list of <<name, nature>>
RECURSIVE NatureFindAllFrom(_, _)
NatureFindAllFrom(s, p) ==
  IF p > Len(s) THEN <<>>
  ELSE LET Groups(w, n, o) ==
             << << SubSeq(s, w, w + n - 1),
                   SubSeq(s, o, o + NatureLen(s, o) - 1) >> >>
             \o NatureFindAllFrom(s, LineEnd(s, o))
           Matched(x) == Groups(p + x[1], x[2], p + x[1] + x[2] + x[3])
           Step(S) ==
             IF S = {} THEN NatureFindAllFrom(s, p + 1)
             ELSE Matched(FirstSplit(S))
       IN Step(NatureSplits(s, p))

constraintRe_findall(s) == NatureFindAllFrom(s, 1)

\* a faulty variant: the codes of <= and >= exchanged
NatureCodeExchanged(op) ==
  IF op = <<"<", "=">> THEN 1
  ELSE IF op = <<">", "=">> THEN -1
  ELSE 0
\* the code of a matched declaration
NatureCode(op) ==
  IF op = <<"<", "=">> THEN -1
  ELSE IF op = <<">", "=">> THEN 1
  ELSE 0

\* the body of the for loop, from expression number constraintNo on
RECURSIVE NaturalLoop(_, _, _, _)
NaturalLoop(expressions, constraintNo, vars, naturalConstraints) ==
  IF constraintNo > Len(expressions) THEN Ok(DictValues(naturalConstraints))
  ELSE
    LET Declared(name, nature) ==
          IF \E k \in 1..Len(vars) : vars[k] = name
          THEN DictSet(naturalConstraints, name, NatureCode(nature))
          ELSE naturalConstraints
        Found(expression, constraint) ==
          IF constraint = <<>> THEN Raise(IndexError)
          ELSE IF Len(constraint) # 1
          THEN Raise(Error("MalformedNaturalConstraint", constraintNo,
                           expression, <<>>))
          ELSE NaturalLoop(expressions, constraintNo + 1, vars,
                 Declared(LowerStr(constraint[1][1]), constraint[1][2]))
        Body(expression) == Found(expression, constraintRe_findall(expression))
    IN Body(expressions[constraintNo])

\* [ok, err, val |-> the list returned, problem |-> the list problem after
\*  the call]
naturalConstraintsExtractor(problem, vars, hasNaturalConstraints) ==
  LET Return(r, after) ==
        IF r.ok
        THEN [ok |-> TRUE, err |-> NoError, val |-> PyList(r.val),
              problem |-> after]
        ELSE [ok |-> FALSE, err |-> r.err, val |-> <<>>, problem |-> after]
      Cut(section) ==
        Return(NaturalLoop(AllButLast(Split("\n", section)), 1, vars,
                           DictOf(vars, 1)),
               [problem EXCEPT ![3] = section])
      Sub(section) ==
        IF section = <<>>
        THEN [ok |-> FALSE, err |-> IndexError, val |-> <<>>,
              problem |-> [problem EXCEPT ![3] = <<>>]]
        ELSE Cut(IF section[1] = "\n" THEN Tail(section) ELSE section)
  IN IF ~hasNaturalConstraints
     THEN [ok |-> TRUE, err |-> NoError,
           val |-> PyList(DictValues(DictOf(vars, 1))), problem |-> problem]
     ELSE IF Len(problem) < 3
     THEN [ok |-> FALSE, err |-> IndexError, val |-> <<>>, problem |-> problem]
     ELSE Sub(SectionAfterSub(problem[3]))

(***************************************************************************)
(* numpy operations used by converters.primalToDual                        *)
(***************************************************************************)
RECURSIVE Product(_)
Product(shape) == IF shape = <<>> THEN 1 ELSE Head(shape) * Product(Tail(shape))

\* len(a): the first dimension; a 0-d array has no len()
PyLen(a) == IF a.shape = <<>> THEN Raise(TypeError) ELSE Ok(a.shape[1])

\* a.reshape(shape): a new array over the same data
Reshape(a, shape) ==
  IF Product(shape) # Len(a.data) THEN Raise(ValueError)
  ELSE Ok(NdArray(shape, a.data))

\* numpy.squeeze(a): the dimensions of length one are removed
RECURSIVE DropOnes(_)
DropOnes(shape) ==
  IF shape = <<>> THEN <<>>
  ELSE IF Head(shape) = 1 THEN DropOnes(Tail(shape))
  ELSE <<Head(shape)>> \o DropOnes(Tail(shape))
Squeeze(a) == NdArray(DropOnes(a.shape), a.data)

\* a faulty variant: the array as it is
Untransposed(a) == a
\* a.transpose(): the axes reversed (arrays of at most two dimensions)
Transpose(a) ==
  IF Len(a.shape) < 2 THEN NdArray(a.shape, a.data)
  ELSE NdArray(<< a.shape[2], a.shape[1] >>,
               [k \in 1..Len(a.data) |->
                  a.data[((k - 1) % a.shape[1]) * a.shape[2]
                         + ((k - 1) \div a.shape[1]) + 1]])

\* numpy.dot(-1, x) for a list or an array x: an array of the same shape
DotMinusOne(x) == NdArray(x.shape, [k \in 1..Len(x.data) |-> 0 - x.data[k]])

(***************************************************************************)
(* converters.primalToDual                                                 *)
(***************************************************************************)
\* the default of the parameter naturalConstraints
DefaultNaturalConstraints == PyList(<<>>)

primalToDual(MinMax, c, A, Eqin, b, naturalConstraints) ==
  LET dualType == MinMax * (-1)
      Return(dual_c, dual_b) ==
        IF dualType = 1
        THEN Ok(<< dualType, dual_c, Transpose(A),
                   DotMinusOne(naturalConstraints), dual_b, Eqin >>)
        ELSE IF dualType = -1
        THEN Ok(<< dualType, dual_c, Transpose(A),
                   naturalConstraints, dual_b, DotMinusOne(Eqin) >>)
        ELSE Raise(Error("UnboundLocalError", 0, <<>>, <<>>))
      ColumnC(dual_c, r) == IF r.ok THEN Return(dual_c, r.val) ELSE r
      LenC(dual_c, n) ==
        IF n.ok THEN ColumnC(dual_c, Reshape(c, << n.val, 1 >>)) ELSE n
      RowB(r) == IF r.ok THEN LenC(Squeeze(r.val), PyLen(c)) ELSE r
      LenB(n) == IF n.ok THEN RowB(Reshape(b, << 1, n.val >>)) ELSE n
  IN LenB(PyLen(b))

\* a faulty variant: b is reshaped in place to one row
primalToDualReshapesB(args) ==
  [args EXCEPT !.b = NdArray(<< 1, Len(args.b.data) >>, args.b.data)]
\* the arguments after the call: reshape, squeeze, transpose and dot return
\* new arrays and no statement assigns to an argument or to a part of one
primalToDualArguments(args) == args

(***************************************************************************)
(* lpp.primalToDual, the converter of the single-file program              *)
(***************************************************************************)
\* bool(x) of a list or an array
Truth(x) ==
  IF x.kind = "list" THEN Ok(x.data # <<>>)
  ELSE IF Len(x.data) = 0 THEN Ok(FALSE)
  ELSE IF Len(x.data) = 1 THEN Ok(x.data[1] # 0)
  ELSE Raise(ValueError)

lpp_primalToDual(MinMax, c, A, Eqin, b, naturalConstraints) ==
  LET dualType == MinMax * (-1)
      Return(nc, dual_c, dual_b) ==
        IF dualType = 1
        THEN Ok(<< dualType, dual_c, Transpose(A), Eqin, dual_b,
                   PyList([k \in 1..Len(nc.data) |-> nc.data[k] * (-1)]) >>)
        ELSE IF dualType = -1
        THEN Ok(<< dualType, dual_c, Transpose(A), DotMinusOne(Eqin), dual_b, nc >>)
        ELSE Raise(Error("UnboundLocalError", 0, <<>>, <<>>))
      ColumnC(nc, dual_c, r) == IF r.ok THEN Return(nc, dual_c, r.val) ELSE r
      LenC(nc, dual_c, n) ==
        IF n.ok THEN ColumnC(nc, dual_c, Reshape(c, << n.val, 1 >>)) ELSE n
      RowB(nc, r) == IF r.ok THEN LenC(nc, Squeeze(r.val), PyLen(c)) ELSE r
      LenB(nc, n) == IF n.ok THEN RowB(nc, Reshape(b, << 1, n.val >>)) ELSE n
      Ones(n) == IF n.ok THEN LenB(PyList([k \in 1..n.val |-> 1]), PyLen(b)) ELSE n
      Given(t) ==
        IF ~t.ok THEN t
        ELSE IF t.val THEN LenB(naturalConstraints, PyLen(b))
        ELSE Ones(PyLen(Eqin))
  IN Given(Truth(naturalConstraints))

(***************************************************************************)
(* lpIO.writeLP2json and lpIO.loadLP2json.  A value json can write is a    *)
(* number or a list of such values; the text of a value is a sequence of   *)
(* tokens: a number, an opening bracket, a comma or a closing bracket.     *)
(***************************************************************************)
Num(n) == [t |-> "num", v |-> n, items |-> <<>>]
Lst(items) == [t |-> "list", v |-> 0, items |-> items]
Tok(t, v) == [t |-> t, v |-> v]

AttributeError == Error("AttributeError", 0, <<>>, <<>>)

\* a.tolist(): a number for a 0-d array, a list for one dimension, a list
\* of rows for two; a list has no such method
ToList(a) ==
  IF a.kind # "ndarray" THEN Raise(AttributeError)
  ELSE IF a.shape = <<>> THEN Ok(Num(a.data[1]))
  ELSE IF Len(a.shape) = 1
  THEN Ok(Lst([i \in 1..a.shape[1] |-> Num(a.data[i])]))
  ELSE Ok(Lst([i \in 1..a.shape[1] |->
                 Lst([j \in 1..a.shape[2] |->
                        Num(a.data[(i - 1) * a.shape[2] + j])])]))

\* the value json sees for the object passed as naturalConstraints: a list
\* of numbers is written, an ndarray is not serializable
Serializable(x) ==
  IF x.kind = "list" THEN Ok(Lst([i \in 1..Len(x.data) |-> Num(x.data[i])]))
  ELSE Raise(TypeError)

\* json.dump of a value: its tokens
RECURSIVE JsonDump(_)
JsonDump(val) ==
  IF val.t = "num" THEN << Tok("num", val.v) >>
  ELSE << Tok("[", 0) >>
       \o Concat([i \in 1..Len(val.items) |->
                    (IF i > 1 THEN << Tok(",", 0) >> ELSE <<>>)
                    \o JsonDump(val.items[i])])
       \o << Tok("]", 0) >>

\* json.load of the value that starts at token p: [val, next]
RECURSIVE JsonParse(_, _)
RECURSIVE JsonItems(_, _, _)
JsonParse(tokens, p) ==
  IF tokens[p].t = "num" THEN [val |-> Num(tokens[p].v), next |-> p + 1]
  ELSE JsonItems(tokens, p + 1, <<>>)
JsonItems(tokens, p, items) ==
  IF tokens[p].t = "]" THEN [val |-> Lst(items), next |-> p + 1]
  ELSE IF tokens[p].t = "," THEN JsonItems(tokens, p + 1, items)
  ELSE LET Rest(r) == JsonItems(tokens, r.next, Append(items, r.val))
       IN Rest(JsonParse(tokens, p))
JsonLoad(tokens) == JsonParse(tokens, 1).val

\* numpy.array(val) of a loaded value: the shape is the nesting of the lists
Array(val) ==
  IF val.t = "num" THEN NdArray(<<>>, << val.v >>)
  ELSE IF val.items = <<>> THEN NdArray(<<0>>, <<>>)
  ELSE IF val.items[1].t = "num"
  THEN NdArray(<< Len(val.items) >>, [i \in 1..Len(val.items) |-> val.items[i].v])
  ELSE NdArray(<< Len(val.items), Len(val.items[1].items) >>,
               Concat([i \in 1..Len(val.items) |->
                         [j \in 1..Len(val.items[i].items) |->
                            val.items[i].items[j].v]]))

NoFile == [MinMax |-> <<>>, c |-> <<>>, A |-> <<>>, Eqin |-> <<>>, b |-> <<>>,
           naturalConstraints |-> <<>>]

\* writeLP2json: the file written, one text for each key of the dictionary
writeLP2json(MinMax, c, A, Eqin, b, naturalConstraints) ==
  LET Dump(lc, lA, lE, lb, nc) ==
        IF ~nc.ok THEN nc
        ELSE Ok([MinMax |-> JsonDump(Num(MinMax)),
                 c |-> JsonDump(lc), A |-> JsonDump(lA),
                 Eqin |-> JsonDump(lE), b |-> JsonDump(lb),
                 naturalConstraints |-> JsonDump(nc.val)])
      ListB(lc, lA, lE, r) ==
        IF r.ok THEN Dump(lc, lA, lE, r.val, Serializable(naturalConstraints)) ELSE r
      ListEqin(lc, lA, r) == IF r.ok THEN ListB(lc, lA, r.val, ToList(b)) ELSE r
      ListA(lc, r) == IF r.ok THEN ListEqin(lc, r.val, ToList(Eqin)) ELSE r
      ListC(r) == IF r.ok THEN ListA(r.val, ToList(A)) ELSE r
  IN ListC(ToList(c))

\* loadLP2json: the six objects read from a written file
loadLP2json(file) ==
  LET List(val) == PyList([i \in 1..Len(val.items) |-> val.items[i].v])
  IN << JsonLoad(file.MinMax).v, Array(JsonLoad(file.c)), Array(JsonLoad(file.A)),
        Array(JsonLoad(file.Eqin)), Array(JsonLoad(file.b)),
        List(JsonLoad(file.naturalConstraints)) >>

(***************************************************************************)
(* lpp.py, the single-file program: its own sanityCheck, openLP,           *)
(* constrainsExtractor, naturalConstraintsExtractor and writers.  Its      *)
(* getMinMax, cVectorExctactor, coefficientsExtractor, discoverVariables   *)
(* and discoverProblemVariables have the statements of the functions of    *)
(* extractors.py.                                                          *)
(***************************************************************************)
\* Python values main binds to problem and hasNaturalConstrains
PyStr(s)      == [kind |-> "str", data |-> s]
PyBool(v)     == [kind |-> "bool", data |-> v]
PyTuple(data) == [kind |-> "tuple", data |-> data]
SegmentList(segments) == [kind |-> "list", data |-> segments]

\* x[0], x[1], ... of a list or a str: the elements, or the characters
Items(x) == IF x.kind = "str" THEN IterStr(x.data) ELSE x.data

\* bool(x) of a bool or a str
Truthy(x) == IF x.kind = "bool" THEN x.data ELSE x.data # <<>>

lpp_sanityCheck(problem) ==
  LET Check(keywords, n) ==
        IF n = 0 THEN Raise(IndexError)
        ELSE IF ~ReMatch("max|min", keywords[1]) THEN Raise(MissingDirection)
        ELSE IF n < 2 THEN Raise(IndexError)
        ELSE IF ~ReMatch("lpp.st", keywords[2]) THEN Raise(MissingSection)
        ELSE IF n = 3
             THEN IF ~ReMatch("end", keywords[3]) THEN Raise(MissingEnd)
                  ELSE Ok(FALSE)
        ELSE IF n = 4 /\ ReMatch("with", keywords[3])
             THEN IF ~ReMatch("end", keywords[4]) THEN Raise(MissingEnd)
                  ELSE Ok(TRUE)
        ELSE Ok(FALSE)
      Found(keywords) == Check(keywords, Len(keywords))
  IN Found(FindAll("lpp.keywordPattern", problem))

\* lpp.openLP on the content of the file: the tuple (list of three
\* segments, True), or the list of the first two segments alone
lpp_openLP(fileContent) ==
  LET Cut(hasNaturalConstrains, segmentedList) ==
        IF hasNaturalConstrains
        THEN Ok(PyTuple(<< SegmentList(Take(segmentedList, 3)), PyBool(TRUE) >>))
        ELSE Ok(SegmentList(Take(segmentedList, 2)))
      Checked(r) ==
        IF ~r.ok THEN r ELSE Cut(r.val, Split("lpp.pattern", fileContent))
  IN Checked(lpp_sanityCheck(fileContent))

\* problem, hasNaturalConstrains = openLP(inputFile): the two elements of
\* the tuple, or the two strings of the list
Unpack(returned) ==
  IF Len(returned.data) # 2 THEN Raise(ValueError)
  ELSE IF returned.kind = "tuple" THEN Ok(returned.data)
  ELSE Ok(<< PyStr(returned.data[1]), PyStr(returned.data[2]) >>)

lpp_discoverProblemVariables(problem) ==
  IF Len(Items(problem)) < 2 THEN Raise(IndexError)
  ELSE discoverProblemVariables(Items(problem))

lpp_getMinMax(problem) ==
  IF Len(Items(problem)) < 1 THEN Raise(IndexError)
  ELSE MinMaxExtractor(Items(problem))

lpp_cVectorExctactor(problem, vars) ==
  IF Len(Items(problem)) < 1 THEN Raise(IndexError)
  ELSE cVectorExctactor(Items(problem), vars)

\* the body of the for loop of lpp.constrainsExtractor, from expression
\* number constraintNo on: the row and the right side are appended before
\* the two tests on them
RECURSIVE lpp_ConstraintsLoop(_, _, _, _)
lpp_ConstraintsLoop(expressions, constraintNo, vars, loc) ==
  IF constraintNo > Len(expressions) THEN [Ok(<<>>) EXCEPT !.val = loc]
  ELSE
    LET RaiseWith(e, A, b, EqinTemp) ==
          [Raise(e) EXCEPT !.val = ConstraintLocals(A, b, EqinTemp)]
        Tests(leftPartCoefficients, Ab, A, b, EqinTemp) ==
          IF Len(leftPartCoefficients) < 1
          THEN RaiseWith(Error("EmptyLeftSide", constraintNo, <<>>, <<>>),
                         A, b, EqinTemp)
          ELSE IF Len(Ab[2]) < 1
          THEN RaiseWith(Error("EmptyRightSide", constraintNo, <<>>, <<>>),
                         A, b, EqinTemp)
          ELSE lpp_ConstraintsLoop(expressions, constraintNo + 1, vars,
                                   ConstraintLocals(A, b, EqinTemp))
        Right(right, leftPartCoefficients, Ab, A, EqinTemp) ==
          IF ~right.ok THEN RaiseWith(right.err, A, loc.b, EqinTemp)
          ELSE Tests(leftPartCoefficients, Ab, A, Append(loc.b, right.val), EqinTemp)
        Left(left, Ab, EqinTemp) ==
          IF ~left.ok THEN RaiseWith(left.err, loc.A, loc.b, EqinTemp)
          ELSE Right(ParseFloat(Ab[2]), left.val, Ab, Append(loc.A, left.val),
                     EqinTemp)
        Parts(Ab, EqinTemp) ==
          Left(coefficientsExtractor(Ab[1], vars), Ab, EqinTemp)
        Found(expression, constraint) ==
          IF Len(constraint) # 1
          THEN RaiseWith(Error("MalformedConstraint", constraintNo, expression, <<>>),
                         loc.A, loc.b, Append(loc.EqinTemp, constraint))
          ELSE Parts(Split("<=|=|>=", expression), Append(loc.EqinTemp, constraint))
        Body(expression) == Found(expression, FindAll("<=|=|>=", expression))
    IN Body(expressions[constraintNo])

\* [ok, err, val |-> <<A, Eqin, b>>, problem |-> the object problem after
\*  the call, locals |-> A, b and EqinTemp when the function was left]; a
\* str does not support the assignment to problem[1]
lpp_constrainsExtractor(problem, vars) ==
  LET empty == ConstraintLocals(<<>>, <<>>, <<>>)
      Raised(e, after) ==
        [ok |-> FALSE, err |-> e, val |-> <<>>, problem |-> after, locals |-> empty]
      Codes(EqinTemp) == [i \in 1..Len(EqinTemp) |-> EqinCode(EqinTemp[i][1])]
      Return(r, after) ==
        IF ~r.ok
        THEN [ok |-> FALSE, err |-> r.err, val |-> <<>>,
              problem |-> after, locals |-> r.val]
        ELSE [ok |-> TRUE, err |-> NoError,
              val |-> << ArrayOfRows(r.val.A),
                         NdArray(<<Len(r.val.EqinTemp), 1>>, Codes(r.val.EqinTemp)),
                         NdArray(<<Len(r.val.b), 1>>, r.val.b) >>,
              problem |-> after, locals |-> r.val]
      Cut(section) ==
        Return(lpp_ConstraintsLoop(AllButLast(Split("\n", section)), 1, vars, empty),
               [problem EXCEPT !.data[2] = section])
      Sub(section) ==
        IF section = <<>>
        THEN Raised(IndexError, [problem EXCEPT !.data[2] = <<>>])
        ELSE Cut(IF section[1] = "\n" THEN Tail(section) ELSE section)
  IN IF Len(Items(problem)) < 2 THEN Raised(IndexError, problem)
     ELSE IF problem.kind = "str" THEN Raised(TypeError, problem)
     ELSE Sub(SectionAfterSub(problem.data[2]))

\* the body of the for loop of lpp.naturalConstraintsExtractor: the name is
\* looked up as it is written, and the number of matches is tested after
\* the first match was used
RECURSIVE lpp_NaturalLoop(_, _, _, _)
lpp_NaturalLoop(expressions, constraintNo, vars, naturalConstraints) ==
  IF constraintNo > Len(expressions) THEN Ok(DictValues(naturalConstraints))
  ELSE
    LET Declared(name, nature) ==
          IF \E k \in 1..Len(vars) : vars[k] = name
          THEN DictSet(naturalConstraints, name, NatureCode(nature))
          ELSE naturalConstraints
        Found(expression, constraint) ==
          IF constraint = <<>> THEN Raise(IndexError)
          ELSE IF Len(constraint) # 1
          THEN Raise(Error("MalformedNaturalConstraint", constraintNo,
                           expression, <<>>))
          ELSE lpp_NaturalLoop(expressions, constraintNo + 1, vars,
                               Declared(constraint[1][1], constraint[1][2]))
        Body(expression) == Found(expression, constraintRe_findall(expression))
    IN Body(expressions[constraintNo])

\* [ok, err, val |-> the list returned, problem |-> the object problem after
\*  the call]
lpp_naturalConstraintsExtractor(problem, vars, hasNaturalConstrains) ==
  LET Raised(e, after) ==
        [ok |-> FALSE, err |-> e, val |-> <<>>, problem |-> after]
      Return(r, after) ==
        IF r.ok
        THEN [ok |-> TRUE, err |-> NoError, val |-> PyList(r.val),
              problem |-> after]
        ELSE Raised(r.err, after)
      Cut(section) ==
        Return(lpp_NaturalLoop(AllButLast(Split("\n", section)), 1, vars,
                               DictOf(vars, 1)),
               [problem EXCEPT !.data[3] = section])
      Sub(section) ==
        IF section = <<>>
        THEN Raised(IndexError, [problem EXCEPT !.data[3] = <<>>])
        ELSE Cut(IF section[1] = "\n" THEN Tail(section) ELSE section)
  IN IF ~Truthy(hasNaturalConstrains)
     THEN [ok |-> TRUE, err |-> NoError,
           val |-> PyList(DictValues(DictOf(vars, 1))), problem |-> problem]
     ELSE IF Len(Items(problem)) < 3 THEN Raised(IndexError, problem)
     ELSE IF problem.kind = "str" THEN Raised(TypeError, problem)
     ELSE Sub(SectionAfterSub(problem.data[3]))

\* numpy.array(x) of an array or of a flat list: a new array
NpArray(x) == NdArray(x.shape, x.data)

UnboundLocalError == Error("UnboundLocalError", 0, <<>>, <<>>)

\* an entry of the written file: a heading or key and what is written for it
Entry(k, v) == [k |-> k, v |-> v]

\* lpp.writeLP2: the blocks written, each the heading and the object whose
\* str() follows it; the last block is written for a non-empty list only
lpp_writeLP2(MinMax, c, A, Eqin, b, naturalConstraints) ==
  LET Blocks(cE, cb, t) ==
        IF ~t.ok THEN t
        ELSE Ok(<< Entry("MinMax = ", MinMax), Entry("c =", NpArray(c)),
                   Entry("A =", NpArray(A)), Entry("Eqin =", cE),
                   Entry("b =", cb) >>
                \o (IF t.val
                    THEN << Entry("naturalConstraints =", naturalConstraints) >>
                    ELSE << >>))
      ColumnB(cE, r) ==
        IF r.ok THEN Blocks(cE, r.val, Truth(naturalConstraints)) ELSE r
      LenB(cE, n) ==
        IF n.ok THEN ColumnB(cE, Reshape(NpArray(b), << n.val, 1 >>)) ELSE n
      ColumnEqin(r) == IF r.ok THEN LenB(r.val, PyLen(b)) ELSE r
      LenEqin(n) ==
        IF n.ok THEN ColumnEqin(Reshape(NpArray(Eqin), << n.val, 1 >>)) ELSE n
  IN LenEqin(PyLen(Eqin))

\* the dictionary {'array': a.tolist(), 'dimensions': a.shape} as json
\* writes it
ArrayAndDimensions(a) ==
  LET Both(l) ==
        IF ~l.ok THEN l
        ELSE Ok([array |-> JsonDump(l.val),
                 dimensions |-> JsonDump(Lst([i \in 1..Len(a.shape) |->
                                                Num(a.shape[i])]))])
  IN Both(ToList(a))

\* lpp.writeLP2json: the keys written and the text of each; the dictionary
\* is built only when no output name is given, and the natural constraints
\* are added for a non-empty list only
lpp_writeLP2json(MinMax, c, A, Eqin, b, naturalConstraints, outputName) ==
  LET Dump(dc, dA, dE, db, nc) ==
        IF ~nc.ok THEN nc
        ELSE Ok(<< Entry("MinMax", JsonDump(Num(MinMax))), Entry("c", dc),
                   Entry("A", dA), Entry("Eqin", dE), Entry("b", db),
                   Entry("naturalConstraints", JsonDump(nc.val)) >>)
      Given(dc, dA, dE, db, t) ==
        IF ~t.ok THEN t
        ELSE IF t.val THEN Dump(dc, dA, dE, db, Serializable(naturalConstraints))
        ELSE Ok(<< Entry("MinMax", JsonDump(Num(MinMax))), Entry("c", dc),
                   Entry("A", dA), Entry("Eqin", dE), Entry("b", db) >>)
      DictB(dc, dA, dE, r) ==
        IF r.ok THEN Given(dc, dA, dE, r.val, Truth(naturalConstraints)) ELSE r
      DictEqin(dc, dA, r) ==
        IF r.ok THEN DictB(dc, dA, r.val, ArrayAndDimensions(b)) ELSE r
      DictA(dc, r) == IF r.ok THEN DictEqin(dc, r.val, ArrayAndDimensions(Eqin)) ELSE r
      DictC(r) == IF r.ok THEN DictA(r.val, ArrayAndDimensions(A)) ELSE r
  IN IF outputName # <<>> THEN Raise(UnboundLocalError)
     ELSE DictC(ArrayAndDimensions(c))

(***************************************************************************)
(* Input files.  A term is written from a sign, a coefficient and a name;  *)
(* a line is a list of terms, an operator and a right side, or raw text.   *)
(***************************************************************************)
MaxLines == 2

x1  == <<"x", "1">>
x2  == <<"x", "2">>
x3  == <<"x", "3">>
x10 == <<"x", "1", "0">>
LE  == <<"<", "=">>
GE  == <<">", "=">>
EQ  == <<"=">>

Term(sign, coefficient, name) ==
  [sign |-> sign, coefficient |-> coefficient, name |-> name]
TermText(t) == t.sign \o t.coefficient \o t.name
TermsText(ts) == Concat([i \in 1..Len(ts) |-> TermText(ts[i])])

\* a constraint line written from its parts
Line(terms, op, rhs) ==
  [parts |-> TRUE, terms |-> terms, op |-> op, rhs |-> rhs,
   text |-> TermsText(terms) \o op \o rhs]
\* any other line of text
RawLine(text) ==
  [parts |-> FALSE, terms |-> <<>>, op |-> <<>>, rhs |-> <<>>, text |-> text]

\* the first line of the file: the direction keyword and the objective
Objective(keyword, terms) ==
  [keyword |-> keyword, terms |-> terms,
   text |-> keyword \o <<" ">> \o TermsText(terms)]

Objectives ==
  { Objective(<<"m","a","x">>, << Term(<<>>, <<"2">>, x1), Term(<<"+">>, <<"3">>, x2) >>),
    Objective(<<"m","i","n">>, << Term(<<>>, <<"2">>, x1), Term(<<"+">>, <<"3">>, x3) >>),
    Objective(<<"m","i","n">>, << Term(<<"-">>, <<>>, x1) >>),
    Objective(<<"m","a","x">>, << Term(<<>>, <<>>, x1), Term(<<>>, <<>>, x2) >>),
    Objective(<<"m","a","x">>, << Term(<<>>, <<>>, x1), Term(<<>>, <<>>, x1) >>) }

ConstraintLines ==
  { Line(<< Term(<<>>, <<>>, x1), Term(<<"+">>, <<>>, x2) >>, LE, <<"4">>),
    Line(<< Term(<<>>, <<>>, x1), Term(<<"-">>, <<>>, x2) >>, GE, <<"1">>),
    Line(<< Term(<<>>, <<>>, x10), Term(<<"+">>, <<>>, x2) >>, EQ, <<"3">>),
    Line(<< Term(<<>>, <<"2">>, x1), Term(<<"+">>, <<"3">>, x1) >>, LE, <<"4">>),
    Line(<< Term(<<>>, <<>>, x1), Term(<<"-">>, <<>>, x1) >>, LE, <<"5">>),
    Line(<< Term(<<>>, <<>>, x1), Term(<<>>, <<>>, x2) >>, LE, <<"3">>),
    Line(<< Term(<<>>, <<>>, x1), Term(<<>>, <<>>, x1) >>, LE, <<"3">>),
    Line(<< Term(<<>>, <<>>, x1) >>, LE, <<>>),
    Line(<< >>, LE, <<"5">>),
    RawLine(<<"x", "1", " ", "+", " ", "x", "2">>),
    RawLine(<<"x", "1", "<", "=", "2", "<", "=", "3">>),
    RawLine(<< >>) }

\* no keyword with, or the keyword and the declarations after it, one per line
NoWith == [present |-> FALSE, lines |-> <<>>]
With(lines) == [present |-> TRUE, lines |-> lines]
\* a declaration written from a name, a nature and the rest of the line
Decl(name, nature, rest) ==
  [parts |-> TRUE, name |-> name, nature |-> nature,
   text |-> name \o <<" ">> \o nature \o rest]
\* any other line of the block
RawDecl(text) == [parts |-> FALSE, name |-> <<>>, nature |-> <<>>, text |-> text]
x5   == <<"x", "5">>
Free == <<"f", "r", "e", "e">>

\* "x1 <= 0", "x5 free"
Declared == With(<< Decl(x1, LE, <<" ", "0">>), Decl(x5, Free, <<>>) >>)
\* "x1 <= 0", "x2 >= 0", "x1 free"
Redeclared ==
  With(<< Decl(x1, LE, <<" ", "0">>), Decl(x2, GE, <<" ", "0">>),
          Decl(x1, Free, <<>>) >>)
\* "x1 <= 0", "abc"
Undeclared == With(<< Decl(x1, LE, <<" ", "0">>), RawDecl(<<"a", "b", "c">>) >>)
NaturalBlocks == { NoWith, Declared, Redeclared, Undeclared }

Sources ==
  [ objective : Objectives,
    lines     : UNION { [1..k -> ConstraintLines] : k \in 0..MaxLines },
    natural   : NaturalBlocks ]

\* each line followed by a newline
LinesText(lines) ==
  Concat([i \in 1..Len(lines) |-> lines[i] \o <<"\n">>])

\* the lines one after the other, a newline after each; the last line has
\* one only if newline is TRUE
LinesJoined(lines, newline) ==
  Concat([i \in 1..Len(lines) |->
            lines[i] \o (IF i < Len(lines) \/ newline THEN <<"\n">> ELSE <<>>)])

\* the content of the file written from src with the given section keyword
\* and the given text in the place of the keyword end; newline tells
\* whether the last constraint line ends in a newline before the keyword
\* that follows it
FileTextJoined(src, section, ending, newline) ==
  src.objective.text \o <<"\n">>
  \o section \o <<"\n">>
  \o LinesJoined([i \in 1..Len(src.lines) |-> src.lines[i].text], newline)
  \o (IF src.natural.present
      THEN <<"w", "i", "t", "h", "\n">>
           \o LinesText([i \in 1..Len(src.natural.lines) |-> src.natural.lines[i].text])
      ELSE <<>>)
  \o ending

\* the same with a newline after every constraint line
FileTextOf(src, section, ending) == FileTextJoined(src, section, ending, TRUE)

\* the content of the file written from src
FileText(src) == FileTextOf(src, <<"s", ".", "t", ".">>, <<"e", "n", "d">>)

\* the ways the section keyword is written, and what stands in the place
\* of the keyword end: the keyword, or nothing
SectionKeywords ==
  { <<"s", ".", "t", ".">>, <<"s", "t">>,
    <<"s", "u", "b", "j", "e", "c", "t", " ", "t", "o">> }
Endings == { <<"e", "n", "d">>, << >> }

\* a constraint line with terms for different variables, every term after
\* the first with its sign, and a right side
WellFormedConstraint(l) ==
  /\ l.parts /\ l.rhs # <<>> /\ l.terms # <<>>
  /\ \A i, j \in 1..Len(l.terms) :
       i # j => /\ l.terms[j].name # l.terms[i].name
                /\ (j > 1 => l.terms[j].sign # <<>>)

\* files of well-formed and blank lines with any section keyword and any
\* ending, the last constraint line with or without its newline
FileSources ==
  [ objective : { o \in Objectives : \A i \in 2..Len(o.terms) : o.terms[i].sign # <<>> },
    lines     : UNION { [1..k -> { l \in ConstraintLines :
                                     \/ l.text = <<>>
                                     \/ WellFormedConstraint(l) }]
                      : k \in 0..MaxLines },
    natural   : { NoWith, Declared },
    section   : SectionKeywords,
    ending    : Endings,
    newline   : BOOLEAN ]

\* what stands in the file after the keyword end: nothing, a newline, a
\* line of other text, a second end, a section keyword, a with block
Tails ==
  { << >>,
    <<"\n">>,
    <<"\n", "x", "9", "\n">>,
    <<"\n", "e", "n", "d">>,
    <<" ", "s", "t">>,
    <<"\n", "w", "i", "t", "h", "\n", "x", "1", " ", "<", "=", " ", "0", "\n",
      "e", "n", "d">> }

\* files with text after the keyword end
TailSources ==
  [ objective : Objectives,
    lines     : UNION { [1..k -> { l \in ConstraintLines :
                                     \/ WellFormedConstraint(l)
                                     \/ l.text = <<"x", "1", " ", "+", " ", "x", "2">> }]
                      : k \in 0..MaxLines },
    natural   : { NoWith, Declared },
    tail      : Tails ]

(***************************************************************************)
(* The parsing pipeline: the calls of the driver, one action each.         *)
(***************************************************************************)
VARIABLES
  source,                \* the parts the input file was written from
  text,                  \* the content of the input file
  pc,                    \* the call the driver is at
  problem,               \* the list of segments openLP returned
  hasNaturalConstraints, \* the flag openLP returned
  vars,                  \* the list discoverProblemVariables returned
  MinMax, c, A, Eqin, b, naturalConstraints,  \* the model
  locals,                \* locals of constraintsExtractor when it was left
  failure,               \* the exception that ended the run
  written,               \* the file writeLP2json wrote
  loaded,                \* what loadLP2json read from it
  dpc,                   \* the call the user of the converter is at
  primal,                \* the objects passed to primalToDual
  passed,                \* their values when the call was made
  dual,                  \* what the call on the primal model returned
  dualdual               \* what the call on the dual model returned

fileVars == << written, loaded >>
parseVars == << source, text, pc, problem, hasNaturalConstraints, vars,
                MinMax, c, A, Eqin, b, naturalConstraints, locals, failure,
                fileVars >>

dualVars == << dpc, primal, passed, dual, dualdual >>
allVars == << parseVars, dualVars >>

None == [kind |-> "None", shape |-> <<>>, data |-> <<>>]

\* the converter is not in use
DualIdle ==
  /\ dpc = "idle"
  /\ primal = << >> /\ passed = << >>
  /\ dual = Ok(<< >>) /\ dualdual = Ok(<< >>)

ParseInit ==
  /\ source \in Sources
  /\ text = FileText(source)
  /\ pc = "openLP"
  /\ problem = <<>>
  /\ hasNaturalConstraints = FALSE
  /\ vars = <<>>
  /\ MinMax = 0
  /\ c = None /\ A = None /\ Eqin = None /\ b = None
  /\ naturalConstraints = None
  /\ locals = ConstraintLocals(<<>>, <<>>, <<>>)
  /\ failure = NoError
  /\ written = NoFile /\ loaded = << >>

\* a faulty variant: the exception is noted and the driver goes on
FailAndGoOn(e) == pc' = "parsed" /\ failure' = e
\* the exception leaves main: the run is over
Fail(e) == pc' = "failed" /\ failure' = e

OpenLP ==
  /\ pc = "openLP"
  /\ LET Returned(r) ==
           IF r.ok
           THEN /\ problem' = r.val[1]
                /\ hasNaturalConstraints' = r.val[2]
                /\ pc' = "discoverProblemVariables"
                /\ UNCHANGED failure
           ELSE /\ Fail(r.err)
                /\ UNCHANGED << problem, hasNaturalConstraints >>
     IN Returned(openLP(text))
  /\ UNCHANGED << source, text, vars, MinMax, c, A, Eqin, b,
                  naturalConstraints, locals >>
  /\ UNCHANGED << fileVars, dualVars >>

DiscoverProblemVariables ==
  /\ pc = "discoverProblemVariables"
  /\ LET Returned(r) ==
           IF r.ok
           THEN vars' = r.val /\ pc' = "MinMaxExtractor" /\ UNCHANGED failure
           ELSE Fail(r.err) /\ UNCHANGED vars
     IN Returned(discoverProblemVariables(problem))
  /\ UNCHANGED << source, text, problem, hasNaturalConstraints, MinMax, c, A,
                  Eqin, b, naturalConstraints, locals >>
  /\ UNCHANGED << fileVars, dualVars >>

GetMinMax ==
  /\ pc = "MinMaxExtractor"
  /\ LET Returned(r) ==
           IF r.ok
           THEN MinMax' = r.val /\ pc' = "cVectorExctactor" /\ UNCHANGED failure
           ELSE Fail(r.err) /\ UNCHANGED MinMax
     IN Returned(MinMaxExtractor(problem))
  /\ UNCHANGED << source, text, problem, hasNaturalConstraints, vars, c, A,
                  Eqin, b, naturalConstraints, locals >>
  /\ UNCHANGED << fileVars, dualVars >>

ExtractC ==
  /\ pc = "cVectorExctactor"
  /\ LET Returned(r) ==
           IF r.ok
           THEN c' = r.val /\ pc' = "constraintsExtractor" /\ UNCHANGED failure
           ELSE Fail(r.err) /\ UNCHANGED c
     IN Returned(cVectorExctactor(problem, vars))
  /\ UNCHANGED << source, text, problem, hasNaturalConstraints, vars, MinMax,
                  A, Eqin, b, naturalConstraints, locals >>
  /\ UNCHANGED << fileVars, dualVars >>

ExtractConstraints ==
  /\ pc = "constraintsExtractor"
  /\ LET Returned(r) ==
           /\ problem' = r.problem
           /\ locals' = r.locals
           /\ IF r.ok
              THEN /\ A' = r.val[1] /\ Eqin' = r.val[2] /\ b' = r.val[3]
                   /\ pc' = "naturalConstraintsExtractor"
                   /\ UNCHANGED failure
              ELSE Fail(r.err) /\ UNCHANGED << A, Eqin, b >>
     IN Returned(constraintsExtractor(problem, vars))
  /\ UNCHANGED << source, text, hasNaturalConstraints, vars, MinMax, c,
                  naturalConstraints >>
  /\ UNCHANGED << fileVars, dualVars >>

ExtractNaturalConstraints ==
  /\ pc = "naturalConstraintsExtractor"
  /\ LET Returned(r) ==
           /\ problem' = r.problem
           /\ IF r.ok
              THEN /\ naturalConstraints' = r.val
                   /\ pc' = "parsed"
                   /\ UNCHANGED failure
              ELSE Fail(r.err) /\ UNCHANGED naturalConstraints
     IN Returned(naturalConstraintsExtractor(problem, vars, hasNaturalConstraints))
  /\ UNCHANGED << source, text, hasNaturalConstraints, vars, MinMax, c, A,
                  Eqin, b, locals >>
  /\ UNCHANGED << fileVars, dualVars >>

\* main with the option for the dual: the six names are bound to what
\* primalToDual(MinMax, c, A, Eqin, b) returns
ConvertToDual ==
  /\ pc = "parsed"
  /\ LET Returned(r) ==
           IF r.ok
           THEN /\ MinMax' = r.val[1] /\ c' = r.val[2] /\ A' = r.val[3]
                /\ Eqin' = r.val[4] /\ b' = r.val[5]
                /\ naturalConstraints' = r.val[6]
                /\ pc' = "converted"
                /\ UNCHANGED failure
           ELSE /\ Fail(r.err)
                /\ UNCHANGED << MinMax, c, A, Eqin, b, naturalConstraints >>
     IN Returned(primalToDual(MinMax, c, A, Eqin, b, DefaultNaturalConstraints))
  /\ UNCHANGED << source, text, problem, hasNaturalConstraints, vars, locals,
                  fileVars, dualVars >>

\* main with the option for JSON: the model is written
WriteLP2json ==
  /\ pc \in {"parsed", "converted"}
  /\ LET Returned(r) ==
           IF r.ok
           THEN written' = r.val /\ pc' = "written" /\ UNCHANGED failure
           ELSE Fail(r.err) /\ UNCHANGED written
     IN Returned(writeLP2json(MinMax, c, A, Eqin, b, naturalConstraints))
  /\ UNCHANGED << source, text, problem, hasNaturalConstraints, vars, MinMax,
                  c, A, Eqin, b, naturalConstraints, locals, loaded, dualVars >>

\* the written file is read back
LoadLP2json ==
  /\ pc = "written"
  /\ loaded' = loadLP2json(written)
  /\ pc' = "loaded"
  /\ UNCHANGED << source, text, problem, hasNaturalConstraints, vars, MinMax,
                  c, A, Eqin, b, naturalConstraints, locals, failure, written,
                  dualVars >>

ParseNext ==
  \/ OpenLP
  \/ DiscoverProblemVariables
  \/ GetMinMax
  \/ ExtractC
  \/ ExtractConstraints
  \/ ExtractNaturalConstraints
  \/ ConvertToDual
  \/ WriteLP2json
  \/ LoadLP2json

Init == ParseInit /\ DualIdle
Next == ParseNext
Spec == Init /\ [][Next]_allVars

\* the same calls on the files of FileSources
FilesInit ==
  /\ source \in FileSources
  /\ text = FileTextJoined(source, source.section, source.ending, source.newline)
  /\ pc = "openLP"
  /\ problem = <<>>
  /\ hasNaturalConstraints = FALSE
  /\ vars = <<>>
  /\ MinMax = 0
  /\ c = None /\ A = None /\ Eqin = None /\ b = None
  /\ naturalConstraints = None
  /\ locals = ConstraintLocals(<<>>, <<>>, <<>>)
  /\ failure = NoError
  /\ written = NoFile /\ loaded = << >>
  /\ DualIdle

SpecFiles == FilesInit /\ [][Next]_allVars

\* the same calls on the files of TailSources
TailsInit ==
  /\ source \in TailSources
  /\ text = FileText(source) \o source.tail
  /\ pc = "openLP"
  /\ problem = <<>>
  /\ hasNaturalConstraints = FALSE
  /\ vars = <<>>
  /\ MinMax = 0
  /\ c = None /\ A = None /\ Eqin = None /\ b = None
  /\ naturalConstraints = None
  /\ locals = ConstraintLocals(<<>>, <<>>, <<>>)
  /\ failure = NoError
  /\ written = NoFile /\ loaded = << >>
  /\ DualIdle

SpecTails == TailsInit /\ [][Next]_allVars

(***************************************************************************)
(* lpp.main: the calls of the single-file program, one action each.  The   *)
(* options -d, -j and -o are inputs of the run.                            *)
(***************************************************************************)
OutputNames == { << >>, <<"o", "u", "t">> }

MainInit ==
  /\ source \in Sources
  /\ text = FileText(source)
  /\ pc = "openLP"
  /\ problem = SegmentList(<< >>)
  /\ hasNaturalConstraints = PyBool(FALSE)
  /\ vars = <<>>
  /\ MinMax = 0
  /\ c = None /\ A = None /\ Eqin = None /\ b = None
  /\ naturalConstraints = None
  /\ locals = ConstraintLocals(<<>>, <<>>, <<>>)
  /\ failure = NoError
  /\ written = << >> /\ loaded = << >>
  /\ DualIdle

\* problem, hasNaturalConstrains = openLP(inputFile)
MainOpenLP ==
  /\ pc = "openLP"
  /\ LET Bound(u) ==
           IF u.ok
           THEN /\ problem' = u.val[1]
                /\ hasNaturalConstraints' = u.val[2]
                /\ pc' = "discoverProblemVariables"
                /\ UNCHANGED failure
           ELSE /\ Fail(u.err)
                /\ UNCHANGED << problem, hasNaturalConstraints >>
         Returned(r) == Bound(IF r.ok THEN Unpack(r.val) ELSE r)
     IN Returned(lpp_openLP(text))
  /\ UNCHANGED << source, text, vars, MinMax, c, A, Eqin, b,
                  naturalConstraints, locals >>
  /\ UNCHANGED << fileVars, dualVars >>

MainDiscoverProblemVariables ==
  /\ pc = "discoverProblemVariables"
  /\ LET Returned(r) ==
           IF r.ok
           THEN vars' = r.val /\ pc' = "getMinMax" /\ UNCHANGED failure
           ELSE Fail(r.err) /\ UNCHANGED vars
     IN Returned(lpp_discoverProblemVariables(problem))
  /\ UNCHANGED << source, text, problem, hasNaturalConstraints, MinMax, c, A,
                  Eqin, b, naturalConstraints, locals >>
  /\ UNCHANGED << fileVars, dualVars >>

MainGetMinMax ==
  /\ pc = "getMinMax"
  /\ LET Returned(r) ==
           IF r.ok
           THEN MinMax' = r.val /\ pc' = "cVectorExctactor" /\ UNCHANGED failure
           ELSE Fail(r.err) /\ UNCHANGED MinMax
     IN Returned(lpp_getMinMax(problem))
  /\ UNCHANGED << source, text, problem, hasNaturalConstraints, vars, c, A,
                  Eqin, b, naturalConstraints, locals >>
  /\ UNCHANGED << fileVars, dualVars >>

MainExtractC ==
  /\ pc = "cVectorExctactor"
  /\ LET Returned(r) ==
           IF r.ok
           THEN c' = r.val /\ pc' = "constrainsExtractor" /\ UNCHANGED failure
           ELSE Fail(r.err) /\ UNCHANGED c
     IN Returned(lpp_cVectorExctactor(problem, vars))
  /\ UNCHANGED << source, text, problem, hasNaturalConstraints, vars, MinMax,
                  A, Eqin, b, naturalConstraints, locals >>
  /\ UNCHANGED << fileVars, dualVars >>

MainExtractConstraints ==
  /\ pc = "constrainsExtractor"
  /\ LET Returned(r) ==
           /\ problem' = r.problem
           /\ locals' = r.locals
           /\ IF r.ok
              THEN /\ A' = r.val[1] /\ Eqin' = r.val[2] /\ b' = r.val[3]
                   /\ pc' = "naturalConstraintsExtractor"
                   /\ UNCHANGED failure
              ELSE Fail(r.err) /\ UNCHANGED << A, Eqin, b >>
     IN Returned(lpp_constrainsExtractor(problem, vars))
  /\ UNCHANGED << source, text, hasNaturalConstraints, vars, MinMax, c,
                  naturalConstraints >>
  /\ UNCHANGED << fileVars, dualVars >>

MainExtractNaturalConstraints ==
  /\ pc = "naturalConstraintsExtractor"
  /\ LET Returned(r) ==
           /\ problem' = r.problem
           /\ IF r.ok
              THEN /\ naturalConstraints' = r.val
                   /\ pc' = "parsed"
                   /\ UNCHANGED failure
              ELSE Fail(r.err) /\ UNCHANGED naturalConstraints
     IN Returned(lpp_naturalConstraintsExtractor(problem, vars,
                                                 hasNaturalConstraints))
  /\ UNCHANGED << source, text, hasNaturalConstraints, vars, MinMax, c, A,
                  Eqin, b, locals >>
  /\ UNCHANGED << fileVars, dualVars >>

\* the option -d: the six names are bound to what
\* primalToDual(MinMax, c, A, Eqin, b) returns
MainPrimalToDual ==
  /\ pc = "parsed"
  /\ LET Returned(r) ==
           IF r.ok
           THEN /\ MinMax' = r.val[1] /\ c' = r.val[2] /\ A' = r.val[3]
                /\ Eqin' = r.val[4] /\ b' = r.val[5]
                /\ naturalConstraints' = r.val[6]
                /\ pc' = "converted"
                /\ UNCHANGED failure
           ELSE /\ Fail(r.err)
                /\ UNCHANGED << MinMax, c, A, Eqin, b, naturalConstraints >>
     IN Returned(lpp_primalToDual(MinMax, c, A, Eqin, b, DefaultNaturalConstraints))
  /\ UNCHANGED << source, text, problem, hasNaturalConstraints, vars, locals,
                  fileVars, dualVars >>

\* the model is handed to writeLP2json (option -j) or to writeLP2
MainWrite ==
  /\ pc \in {"parsed", "converted"}
  /\ \E exportAsJSON \in BOOLEAN, outputFile \in OutputNames :
       LET Returned(r) ==
             IF r.ok
             THEN written' = r.val /\ pc' = "Done" /\ UNCHANGED failure
             ELSE Fail(r.err) /\ UNCHANGED written
       IN Returned(IF exportAsJSON
                   THEN lpp_writeLP2json(MinMax, c, A, Eqin, b,
                                         naturalConstraints, outputFile)
                   ELSE lpp_writeLP2(MinMax, c, A, Eqin, b, naturalConstraints))
  /\ UNCHANGED << source, text, problem, hasNaturalConstraints, vars, MinMax,
                  c, A, Eqin, b, naturalConstraints, locals, loaded, dualVars >>

MainNext ==
  \/ MainOpenLP
  \/ MainDiscoverProblemVariables
  \/ MainGetMinMax
  \/ MainExtractC
  \/ MainExtractConstraints
  \/ MainExtractNaturalConstraints
  \/ MainPrimalToDual
  \/ MainWrite

\* the positions of main
MainLabels ==
  { "openLP", "discoverProblemVariables", "getMinMax", "cVectorExctactor",
    "constrainsExtractor", "naturalConstraintsExtractor", "parsed",
    "converted", "Done", "failed" }

\* main goes on: it is at a call and comes to another position.  Every step
\* of MainNext is such a step, and MainNext has a step in every state where
\* main is at a call, so weak fairness of this action is weak fairness of
\* MainNext.
MainGoesOn == pc \notin {"Done", "failed"} /\ pc' \in MainLabels \ {pc}

\* main runs each call to its end and goes on to the next
SpecMain == MainInit /\ [][MainNext]_allVars /\ WF_pc(MainGoesOn)

(***************************************************************************)
(* Properties of the parsing pipeline                                      *)
(***************************************************************************)
\* the stages whose results are in the state
HasVars ==
  pc \in {"MinMaxExtractor", "cVectorExctactor", "constraintsExtractor",
          "naturalConstraintsExtractor", "parsed"}
HasMinMax ==
  pc \in {"cVectorExctactor", "constraintsExtractor",
          "naturalConstraintsExtractor", "parsed"}
HasC == pc \in {"constraintsExtractor", "naturalConstraintsExtractor", "parsed"}
HasRows == pc \in {"naturalConstraintsExtractor", "parsed"}
\* the run has failed before the parser had the whole model
ParseFailed == pc = "failed" /\ naturalConstraints = None

\* the coefficient a term was written with
Written(t) ==
  (IF t.sign = <<"-">> THEN -1 ELSE 1)
  * (IF t.coefficient = <<>> THEN 1 ELSE ToNat(t.coefficient))

\* the coefficient of the variable name in an expression that names it at
\* most once, 0 if it does not occur
CoefficientIn(terms, name) ==
  IF \E i \in 1..Len(terms) : terms[i].name = name
  THEN Written(terms[CHOOSE i \in 1..Len(terms) : terms[i].name = name])
  ELSE 0

\* an expression of signed terms, each variable in one term
WellFormedExpression(terms) ==
  /\ Len(terms) >= 1
  /\ \A i \in 2..Len(terms) : terms[i].sign # <<>>
  /\ \A i, j \in 1..Len(terms) : terms[i].name = terms[j].name => i = j

WellFormedLine(l) ==
  l.parts /\ WellFormedExpression(l.terms) /\ l.rhs # <<>>

WellFormed(src) ==
  /\ WellFormedExpression(src.objective.terms)
  /\ \A i \in 1..Len(src.lines) : WellFormedLine(src.lines[i])
  /\ \A i \in 1..Len(src.natural.lines) : src.natural.lines[i].parts

Example1Text ==
  << "m","a","x"," ","2","x","1","+","3","x","2","\n",
     "s",".","t",".","\n",
     "x","1","+","x","2","<","=","4","\n",
     "x","1","-","x","2",">","=","1","\n",
     "e","n","d" >>

Example1Parsed ==
  /\ MinMax = 1
  /\ vars = << x1, x2 >>
  /\ c = NdArray(<<2>>, <<2, 3>>)
  /\ A = NdArray(<<2, 2>>, <<1, 1, 1, -1>>)
  /\ Eqin = NdArray(<<2, 1>>, <<-1, 1>>)
  /\ b = NdArray(<<2, 1>>, <<4, 1>>)
  /\ naturalConstraints = PyList(<<1, 1>>)

\* C1: a well-formed input is parsed without a failure, and the results of
\* the stages are the ones the input was written with: MinMax is 1 for max
\* and -1 for min, c[j] is the coefficient of the j-th canonical variable in
\* the objective, A[i][j] its coefficient in line i, b[i] the right side of
\* line i, and the natural constraints are all 1 when there is no with
\* block; Example 1 is parsed to the model the specification gives.
C1_WellFormedInputParsed ==
  WellFormed(source) =>
    /\ ~ParseFailed
    /\ HasMinMax =>
         MinMax = (IF source.objective.keyword = <<"m","a","x">> THEN 1 ELSE -1)
    /\ HasC =>
         \A j \in 1..Len(vars) :
           c.data[j] = CoefficientIn(source.objective.terms, vars[j])
    /\ HasRows =>
         \A i \in 1..Len(source.lines) :
           /\ \A j \in 1..Len(vars) :
                At2(A, i, j) = CoefficientIn(source.lines[i].terms, vars[j])
           /\ b.data[i] = ToNat(source.lines[i].rhs)
    /\ (pc = "parsed" /\ ~source.natural.present) =>
         naturalConstraints = PyList([j \in 1..Len(vars) |-> 1])
    /\ (pc = "parsed" /\ text = Example1Text) => Example1Parsed

\* Example 1 has been parsed
C1_Example1Reached == pc = "parsed" /\ text = Example1Text /\ Example1Parsed

\* the variable names the objective and the lines were written with
ObjectiveNames(src) ==
  { src.objective.terms[i].name : i \in 1..Len(src.objective.terms) }
LineNames(src) ==
  UNION { { src.lines[i].terms[k].name : k \in 1..Len(src.lines[i].terms) } :
          i \in 1..Len(src.lines) }
Range(f) == { f[i] : i \in 1..Len(f) }

\* C2: the list discoverProblemVariables returned has every variable of the
\* objective and of the constraint lines.
C2_EveryVariableListed ==
  HasVars => (ObjectiveNames(source) \cup LineNames(source)) \subseteq Range(vars)

\* the lines of the constraint section that are not blank
NonBlank(lines) == SelectSeq(lines, LAMBDA l : l.text # <<>>)

\* C3: in a returned model c has length n, A has m rows of length n, Eqin
\* and b have length m and the natural constraints have length n, for n
\* canonical variables and m constraint lines.
C3_DimensionsAgree ==
  pc = "parsed" =>
    LET n == Len(vars)
        m == Len(NonBlank(source.lines))
    IN /\ Len(c.data) = n
       /\ m > 0 => A.shape = << m, n >>
       /\ Len(A.data) = m * n
       /\ Len(Eqin.data) = m
       /\ Len(b.data) = m
       /\ Len(naturalConstraints.data) = n

\* the list is in strictly increasing order of code points
StrictlySorted(names) ==
  \A i \in 1..(Len(names) - 1) : StrLess(names[i], names[i + 1])

Expressions(src) ==
  { src.objective.terms }
  \cup { src.lines[i].terms : i \in { k \in 1..Len(src.lines) : src.lines[k].parts } }

\* the terms after the first that have no sign
UnsignedTerms(terms) == { terms[i] : i \in { k \in 2..Len(terms) : terms[k].sign = <<>> } }

\* C9: an input with an expression that has a term without a sign after its
\* first term is not parsed: the run ends with the non-linear error, which
\* names such a term.
C9_UnsignedTermRejected ==
  ((\E e \in Expressions(source) : UnsignedTerms(e) # {})
   /\ (pc = "parsed" \/ ParseFailed)) =>
    /\ pc = "failed"
    /\ failure.kind = "NonLinearTerm"
    /\ \E e \in Expressions(source) : \E t \in UnsignedTerms(e) :
         failure.term = TermText(t)

\* the number of operators in a line: each of them has one "="
OperatorCount(line) == Cardinality({ i \in 1..Len(line) : line[i] = "=" })

\* C10: when constraintsExtractor comes to a line that has no operator or
\* more than one, after lines that are well formed, it raises the malformed
\* constraint error with the number of the line among the lines that are not
\* blank and with its text; the line adds no row and no model is returned.
C10_MalformedLineRejected ==
  [][(pc = "constraintsExtractor" /\ pc' # pc) =>
       \A k \in 1..Len(NonBlank(source.lines)) :
         (/\ OperatorCount(NonBlank(source.lines)[k].text) # 1
          /\ \A i \in 1..(k - 1) : WellFormedLine(NonBlank(source.lines)[i]))
         => /\ pc' = "failed"
            /\ failure' = Error("MalformedConstraint", k,
                                NonBlank(source.lines)[k].text, <<>>)
            /\ Len(locals'.A) = k - 1
            /\ A' = A
  ]_allVars

\* the second line, "x1 + x2", has been rejected and the first has its row
C10_SecondLineRejected ==
  /\ pc = "failed"
  /\ failure = Error("MalformedConstraint", 2,
                     <<"x", "1", " ", "+", " ", "x", "2">>, <<>>)
  /\ Len(locals.A) = 1
  /\ A = None

(***************************************************************************)
(* Further properties of the constraint extractor                          *)
(***************************************************************************)
\* the sum of the coefficients the terms of an expression give to a name
RECURSIVE SumFor(_, _)
SumFor(terms, name) ==
  IF terms = <<>> THEN 0
  ELSE (IF Head(terms).name = name THEN Written(Head(terms)) ELSE 0)
       + SumFor(Tail(terms), name)

\* a left side without terms, or one whose terms cancel for every variable
NoTerms(l) == l.parts /\ l.terms = <<>>
Cancels(l) ==
  /\ l.parts /\ l.terms # <<>>
  /\ \A i \in 2..Len(l.terms) : l.terms[i].sign # <<>>
  /\ \A i \in 1..Len(l.terms) : SumFor(l.terms, l.terms[i].name) = 0

\* C11: when constraintsExtractor comes to a line, after well-formed lines,
\* whose left side has no variable term or whose terms cancel, it raises
\* the empty-left-side error with the number of the line.
C11_EmptyOrCancelledLeftRejected ==
  [][(pc = "constraintsExtractor" /\ pc' # pc) =>
       \A k \in 1..Len(NonBlank(source.lines)) :
         (/\ NoTerms(NonBlank(source.lines)[k]) \/ Cancels(NonBlank(source.lines)[k])
          /\ \A i \in 1..(k - 1) : WellFormedLine(NonBlank(source.lines)[i]))
         => /\ pc' = "failed"
            /\ failure' = Error("EmptyLeftSide", k, <<>>, <<>>)
  ]_allVars

\* the coefficient of the last term of an expression that names the
\* variable, 0 if no term names it
LastCoefficient(terms, name) ==
  LET At == { i \in 1..Len(terms) : terms[i].name = name }
  IN IF At = {} THEN 0
     ELSE Written(terms[CHOOSE i \in At : \A k \in At : k <= i])

AllWritten(src) == \A i \in 1..Len(src.lines) : src.lines[i].parts

\* C12: the slot of a variable holds the value of the last term of the
\* expression that names it, with magnitude 1 for an omitted coefficient,
\* and 0 when no term names it; earlier terms for the variable add nothing.
C12_LastTermWins ==
  /\ HasC =>
       \A j \in 1..Len(vars) :
         c.data[j] = LastCoefficient(source.objective.terms, vars[j])
  /\ (HasRows /\ AllWritten(source)) =>
       \A i \in 1..Len(source.lines) : \A j \in 1..Len(vars) :
         At2(A, i, j) = LastCoefficient(source.lines[i].terms, vars[j])

\* the line 2x1+3x1<=4 has given the row with 3 for x1
C12_ThreeNotFive ==
  /\ pc = "parsed"
  /\ AllWritten(source)
  /\ Len(source.lines) = 2
  /\ TermsText(source.lines[2].terms) = <<"2", "x", "1", "+", "3", "x", "1">>
  /\ vars[1] = x1
  /\ At2(A, 2, 1) = 3

\* the code the specification gives an operator
RelationCode(op) == IF op = LE THEN -1 ELSE IF op = EQ THEN 0 ELSE 1

\* C13: the rows constraintsExtractor returns are in the order of the lines:
\* row i of A, Eqin[i] and b[i] come from the i-th line that is not blank,
\* Eqin[i] is -1 for <=, 0 for = and 1 for >=, and Eqin holds no other value.
C13_RowsInSourceOrder ==
  HasRows =>
    /\ Len(Eqin.data) = Len(NonBlank(source.lines))
    /\ Len(b.data) = Len(NonBlank(source.lines))
    /\ \A i \in 1..Len(Eqin.data) : Eqin.data[i] \in {-1, 0, 1}
    /\ \A i \in 1..Len(NonBlank(source.lines)) :
         /\ NonBlank(source.lines)[i].parts
         /\ Eqin.data[i] = RelationCode(NonBlank(source.lines)[i].op)
         /\ b.data[i] = ToNat(NonBlank(source.lines)[i].rhs)
         /\ \A j \in 1..Len(vars) :
              At2(A, i, j) = LastCoefficient(NonBlank(source.lines)[i].terms, vars[j])

\* the lines x1-x2>=1 and x10+x2=3, in this order, have given their rows
C13_TwoRowsInOrder ==
  /\ pc = "parsed"
  /\ Len(source.lines) = 2
  /\ source.lines[1].op = GE /\ source.lines[2].op = EQ
  /\ vars = << x1, x10, x2 >>
  /\ A = NdArray(<<2, 3>>, <<1, 0, -1, 0, 1, 1>>)
  /\ Eqin = NdArray(<<2, 1>>, <<1, 0>>)
  /\ b = NdArray(<<2, 1>>, <<1, 3>>)

(***************************************************************************)
(* Properties of the natural-constraint extractor                          *)
(***************************************************************************)
\* the code the specification gives a declaration
DeclaredCode(nature) == IF nature = LE THEN -1 ELSE IF nature = GE THEN 1 ELSE 0

\* the code of the last declaration of the block that names the variable,
\* 1 if none names it
ExpectedNature(decls, name) ==
  LET At == { i \in 1..Len(decls) : decls[i].name = name }
  IN IF At = {} THEN 1
     ELSE DeclaredCode(decls[CHOOSE i \in At : \A k \in At : k <= i].nature)

AllDeclared(block) == \A i \in 1..Len(block.lines) : block.lines[i].parts

NoNature(line) ==
  /\ \A p \in 1..(Len(line) - 1) : SubSeq(line, p, p + 1) \notin {LE, GE}
  /\ \A p \in 1..(Len(line) - 3) : LowerStr(SubSeq(line, p, p + 3)) # Free

\* C15: when naturalConstraintsExtractor comes to a line, after written
\* declarations, in which the declaration pattern matches nowhere, it raises
\* the malformed natural constraint error with the number and the text of
\* the line.
C15_UnmatchedDeclarationRejected ==
  [][(pc = "naturalConstraintsExtractor" /\ pc' # pc /\ source.natural.present) =>
       \A k \in 1..Len(source.natural.lines) :
         (/\ NoNature(source.natural.lines[k].text)
          /\ source.natural.lines[k].text # <<>>
          /\ \A i \in 1..(k - 1) : source.natural.lines[i].parts)
         => /\ pc' = "failed"
            /\ failure' = Error("MalformedNaturalConstraint", k,
                                source.natural.lines[k].text, <<>>)
  ]_allVars

(***************************************************************************)
(* Properties of the section check                                         *)
(***************************************************************************)
\* C16: a file with the direction keyword and the section keyword and
\* without the keyword end is rejected by the section check: openLP fails
\* with the missing keyword error, returns no segments, and no model is
\* made, with or without the keyword with.
C16_MissingEndRejected ==
  (source.ending = << >> /\ pc # "openLP") =>
    /\ pc = "failed"
    /\ failure = MissingEnd
    /\ problem = << >>
    /\ A = None /\ c = None

(***************************************************************************)
(* Properties of the driver                                                *)
(***************************************************************************)
\* C17: no call is made after a call has failed; and when segmentation,
\* discovery or an extractor has failed, the run is over, the converter has
\* bound no dual, nothing is written or read back, and the constraint
\* extractor has returned none of A, Eqin and b, whatever rows it had built.
C17_FailFast ==
  /\ [][failure = NoError]_allVars
  /\ [](failure # NoError => pc = "failed")
  /\ [](ParseFailed =>
          /\ failure # NoError
          /\ written = NoFile /\ loaded = << >>
          /\ failure.kind \in {"MalformedConstraint", "EmptyLeftSide",
                               "EmptyRightSide"}
               => A = None /\ Eqin = None /\ b = None)

\* the constraint extractor has failed at its second line
C17_FailedWithRow ==
  /\ ParseFailed
  /\ failure.kind = "MalformedConstraint"
  /\ c # None
  /\ Len(locals.A) = 1
  /\ A = None
  /\ written = NoFile

\* C18: when an expression of the input, the objective or a constraint
\* line, has a term without a sign after its first term, the call of
\* discoverProblemVariables fails with the non-linear error, so no extractor
\* is called.
C18_NonLinearFoundAtDiscovery ==
  [][(pc = "discoverProblemVariables"
      /\ \E e \in Expressions(source) : UnsignedTerms(e) # {}) =>
       /\ pc' = "failed"
       /\ failure'.kind = "NonLinearTerm"
  ]_allVars

\* C19: the calls of cVectorExctactor, constraintsExtractor and
\* naturalConstraintsExtractor leave the list problem and the list vars
\* with the values they had before the call.
C19_ExtractorsKeepArguments ==
  [][(pc \in {"cVectorExctactor", "constraintsExtractor",
              "naturalConstraintsExtractor"}) =>
       /\ problem' = problem
       /\ vars' = vars
  ]_allVars

\* C20: writeLP2json succeeds on every model the driver hands it, the
\* parsed one or the one primalToDual returned, and loadLP2json reads from
\* the written file the MinMax, c, A, Eqin, b and naturalConstraints that
\* were written.
C20_JsonRoundTrip ==
  /\ [][WriteLP2json => pc' = "written"]_allVars
  /\ [](pc = "loaded" =>
          loaded = << MinMax, c, A, Eqin, b, naturalConstraints >>)

\* C21: every model the parser returns has at least one variable: when
\* discoverProblemVariables found no variable, as for a constraint section
\* without constraint lines, the parser does not return a model.
C21_ModelHasVariable ==
  (pc = "parsed") => Len(vars) > 0

\* a line with one operator, a left side of signed terms with one term for
\* each of its variables, and nothing after the operator
NoRightSide(l) == l.parts /\ WellFormedExpression(l.terms) /\ l.rhs = <<>>

\* C22: when constraintsExtractor comes to a line, after well-formed lines,
\* that has one operator, a left side that is not zero and nothing to the
\* right of the operator, it raises the empty-right-side error with the
\* number of the line among the lines that are not blank; nothing is
\* appended to b for the line and no model is returned.
C22_EmptyRightSideRejected ==
  [][(pc = "constraintsExtractor" /\ pc' # pc) =>
       \A k \in 1..Len(NonBlank(source.lines)) :
         (/\ NoRightSide(NonBlank(source.lines)[k])
          /\ \A i \in 1..(k - 1) : WellFormedLine(NonBlank(source.lines)[i]))
         => /\ pc' = "failed"
            /\ failure' = Error("EmptyRightSide", k, <<>>, <<>>)
            /\ Len(locals'.b) = k - 1
            /\ b' = b
  ]_allVars

\* the second line, "x1<=", has been rejected: b has the entry of the first
\* line only
C22_SecondLineWithoutRightSide ==
  /\ pc = "failed"
  /\ Len(source.lines) = 2
  /\ WellFormedLine(source.lines[1])
  /\ source.lines[2].text = <<"x", "1", "<", "=">>
  /\ failure = Error("EmptyRightSide", 2, <<>>, <<>>)
  /\ locals.b = << ToNat(source.lines[1].rhs) >>
  /\ b = None

\* the number of rows of a two-dimensional array, 0 for array([])
RowCount(a) == a.shape[1]

\* C24: no constraint line is dropped: when constraintsExtractor returns, A
\* has one row, Eqin one code and b one right side for every line of the
\* constraint section that is not blank, whether or not the last of them
\* ends in a newline before the keyword with or end.
C24_OneRowForEachLine ==
  [][(pc = "constraintsExtractor" /\ pc' = "naturalConstraintsExtractor") =>
       /\ RowCount(A') = Len(NonBlank(source.lines))
       /\ Len(Eqin'.data) = Len(NonBlank(source.lines))
       /\ Len(b'.data) = Len(NonBlank(source.lines))
  ]_allVars

(***************************************************************************)
(* Properties of the text after the keyword end                            *)
(***************************************************************************)
\* what the calls of the driver give on a file content, from openLP to
\* naturalConstraintsExtractor: the position reached, the segments, the
\* flag, the variables, the model and the exception
RunParser(fileContent) ==
  LET fresh ==
        [pc |-> "openLP", problem |-> <<>>, hasNaturalConstraints |-> FALSE,
         vars |-> <<>>, MinMax |-> 0, c |-> None, A |-> None, Eqin |-> None,
         b |-> None, naturalConstraints |-> None, failure |-> NoError]
      Failed(st, e) == [st EXCEPT !.pc = "failed", !.failure = e]
      Natural(st, r) ==
        IF ~r.ok THEN Failed([st EXCEPT !.problem = r.problem], r.err)
        ELSE [st EXCEPT !.pc = "parsed", !.problem = r.problem,
                        !.naturalConstraints = r.val]
      Rows(st, r) ==
        IF ~r.ok THEN Failed([st EXCEPT !.problem = r.problem], r.err)
        ELSE Natural([st EXCEPT !.problem = r.problem, !.A = r.val[1],
                                !.Eqin = r.val[2], !.b = r.val[3]],
                     naturalConstraintsExtractor(r.problem, st.vars,
                                                 st.hasNaturalConstraints))
      Objective_(st, r) ==
        IF ~r.ok THEN Failed(st, r.err)
        ELSE Rows([st EXCEPT !.c = r.val], constraintsExtractor(st.problem, st.vars))
      Direction(st, r) ==
        IF ~r.ok THEN Failed(st, r.err)
        ELSE Objective_([st EXCEPT !.MinMax = r.val],
                        cVectorExctactor(st.problem, st.vars))
      Discovered(st, r) ==
        IF ~r.ok THEN Failed(st, r.err)
        ELSE Direction([st EXCEPT !.vars = r.val], MinMaxExtractor(st.problem))
      Opened(r) ==
        IF ~r.ok THEN Failed(fresh, r.err)
        ELSE Discovered([fresh EXCEPT !.problem = r.val[1],
                                      !.hasNaturalConstraints = r.val[2]],
                        discoverProblemVariables(r.val[1]))
  IN Opened(openLP(fileContent))

\* the same of the run in the state
Outcome ==
  [pc |-> pc, problem |-> problem,
   hasNaturalConstraints |-> hasNaturalConstraints, vars |-> vars,
   MinMax |-> MinMax, c |-> c, A |-> A, Eqin |-> Eqin, b |-> b,
   naturalConstraints |-> naturalConstraints, failure |-> failure]

\* C25: the text after the keyword end has no effect: openLP returns the
\* segments and the flag it returns for the file that stops at the keyword,
\* and the parser ends with the same model or the same failure.
C25_TextAfterEndIgnored ==
  /\ (pc = "discoverProblemVariables") =>
       << problem, hasNaturalConstraints >> = openLP(FileText(source)).val
  /\ (pc = "parsed" \/ ParseFailed) => Outcome = RunParser(FileText(source))

(***************************************************************************)
(* Properties of lpp.main                                                  *)
(***************************************************************************)
\* an input of the grammar with at least one constraint line
InGrammar(src) == WellFormed(src) /\ Len(src.lines) >= 1

\* C23: main on a well-formed input, with or without a with block, gets
\* from openLP the list of segments and a boolean flag, passes them to the
\* extractors and comes to Done, where the model was handed to the writer;
\* it ends in failed only on an input that is not of the grammar.
C23_WellFormedReachesDone ==
  /\ InGrammar(source) => <>(pc = "Done")
  /\ [](pc = "failed" => ~InGrammar(source))
  /\ [](pc \notin {"openLP", "failed"} =>
          problem.kind = "list" /\ hasNaturalConstraints.kind = "bool")

(***************************************************************************)
(* The converter applied to a model, and then to the model it returned.    *)
(***************************************************************************)
MaxRows == 2
MaxCols == 2
Codes == {-1, 0, 1}

Model(MinMax_, c_, A_, Eqin_, b_, naturalConstraints_) ==
  [MinMax |-> MinMax_, c |-> c_, A |-> A_, Eqin |-> Eqin_, b |-> b_,
   naturalConstraints |-> naturalConstraints_]

\* the model the parser returns for Example 1
Example1Model ==
  Model(1, NdArray(<<2>>, <<2, 3>>), NdArray(<<2, 2>>, <<1, 1, 1, -1>>),
        NdArray(<<2, 1>>, <<-1, 1>>), NdArray(<<2, 1>>, <<4, 1>>),
        PyList(<<1, 1>>))

\* models of m constraints and n variables, in the shapes the parser returns;
\* the natural constraints are a list of n codes or are not passed
ModelsOf(m, n) ==
  { Model(d,
          NdArray(<<n>>, [j \in 1..n |-> j + 1]),
          NdArray(<<m, n>>, [k \in 1..(m * n) |->
                               10 * (((k - 1) \div n) + 1) + ((k - 1) % n) + 1]),
          NdArray(<<m, 1>>, e),
          NdArray(<<m, 1>>, [i \in 1..m |-> 7 - 3 * i]),
          nc) :
      d \in {1, -1}, e \in [1..m -> Codes],
      nc \in { PyList(v) : v \in [1..n -> Codes] } \cup {DefaultNaturalConstraints} }

Models ==
  {Example1Model} \cup UNION { ModelsOf(m, n) : m \in 1..MaxRows, n \in 1..MaxCols }

\* the parser is not in use
ParseIdle ==
  /\ source = << >> /\ text = << >> /\ pc = "idle"
  /\ problem = << >> /\ hasNaturalConstraints = FALSE /\ vars = << >>
  /\ MinMax = 0
  /\ c = None /\ A = None /\ Eqin = None /\ b = None
  /\ naturalConstraints = None
  /\ locals = ConstraintLocals(<<>>, <<>>, <<>>)
  /\ failure = NoError
  /\ written = NoFile /\ loaded = << >>

DualInit ==
  /\ ParseIdle
  /\ primal \in Models
  /\ passed = primal
  /\ dpc = "primal"
  /\ dual = Ok(<< >>) /\ dualdual = Ok(<< >>)

\* converters.primalToDual(MinMax, c, A, Eqin, b, naturalConstraints); the
\* last argument is left out when there are no natural constraints to pass
PrimalToDual ==
  /\ dpc = "primal"
  /\ dual' = primalToDual(primal.MinMax, primal.c, primal.A, primal.Eqin,
                          primal.b, primal.naturalConstraints)
  /\ primal' = primalToDualArguments(primal)
  /\ dpc' = "dual"
  /\ UNCHANGED << passed, dualdual, parseVars >>

\* the converter applied to the six objects it returned
DualToPrimal ==
  /\ dpc = "dual" /\ dual.ok
  /\ dualdual' = primalToDual(dual.val[1], dual.val[2], dual.val[3],
                              dual.val[4], dual.val[5], dual.val[6])
  /\ dpc' = "dualOfDual"
  /\ UNCHANGED << primal, passed, dual, parseVars >>

\* lpp.primalToDual on the same model
LppPrimalToDual ==
  /\ dpc = "primal"
  /\ dual' = lpp_primalToDual(primal.MinMax, primal.c, primal.A, primal.Eqin,
                              primal.b, primal.naturalConstraints)
  /\ dpc' = "lppDual"
  /\ UNCHANGED << primal, passed, dualdual, parseVars >>

DualNext ==
  \/ PrimalToDual
  \/ DualToPrimal
  \/ LppPrimalToDual

SpecDual == DualInit /\ [][DualNext]_allVars

(***************************************************************************)
(* Properties of the converter                                             *)
(***************************************************************************)
Negated(data) == [k \in 1..Len(data) |-> 0 - data[k]]
Rows(model) == model.A.shape[1]
Cols(model) == model.A.shape[2]

Example2Dual ==
  << -1, NdArray(<<2>>, <<4, 1>>), NdArray(<<2, 2>>, <<1, 1, 1, -1>>),
     PyList(<<1, 1>>), NdArray(<<2, 1>>, <<2, 3>>), NdArray(<<2, 1>>, <<1, -1>>) >>

\* C5: the call returns the opposite direction, the entries of b as dual_c,
\* the entries of c as dual_b, the transpose of A, and for dualType 1 the
\* negated natural constraints as dualEqin and Eqin as the dual natural
\* constraints, for dualType -1 the natural constraints as dualEqin and the
\* negated Eqin as the dual natural constraints; for the model of Example 1
\* it returns the dual of Example 2.
C5_DualAsSpecified ==
  dpc \in {"dual", "dualOfDual"} =>
    /\ dual.ok
    /\ dual.val[1] = 0 - passed.MinMax
    /\ dual.val[2].data = passed.b.data
    /\ dual.val[5].data = passed.c.data
    /\ dual.val[3].shape = << Cols(passed), Rows(passed) >>
    /\ \A i \in 1..Rows(passed) : \A j \in 1..Cols(passed) :
         At2(dual.val[3], j, i) = At2(passed.A, i, j)
    /\ dual.val[1] = 1 =>
         /\ dual.val[4].data = Negated(passed.naturalConstraints.data)
         /\ dual.val[6] = passed.Eqin
    /\ dual.val[1] = -1 =>
         /\ dual.val[4] = passed.naturalConstraints
         /\ dual.val[6].data = Negated(passed.Eqin.data)
    /\ passed = Example1Model => dual.val = Example2Dual

\* the dual of Example 1's model has been computed
C5_Example2Reached ==
  dpc = "dual" /\ passed = Example1Model /\ dual.ok /\ dual.val = Example2Dual

\* C6: for a model with natural constraints of length n, the converter
\* applied to the dual succeeds and returns the direction, A, Eqin and the
\* natural constraints of the model, c as a vector of length n and b as a
\* vector of length m.
C6_DualOfDualIsPrimal ==
  (dpc = "dualOfDual"
   /\ Len(passed.naturalConstraints.data) = Cols(passed)) =>
    /\ dualdual.ok
    /\ dualdual.val[1] = passed.MinMax
    /\ dualdual.val[2].data = passed.c.data
    /\ Product(dualdual.val[2].shape) = Cols(passed)
    /\ Len(dualdual.val[2].shape) >= 1
    /\ dualdual.val[3] = passed.A
    /\ dualdual.val[4].data = passed.Eqin.data
    /\ dualdual.val[5].data = passed.b.data
    /\ Product(dualdual.val[5].shape) = Rows(passed)
    /\ Len(dualdual.val[5].shape) >= 1
    /\ dualdual.val[6].data = passed.naturalConstraints.data

\* a vector of one or more entries, each 1 or -1
SignVector(x) ==
  Len(x.data) > 0 /\ \A k \in 1..Len(x.data) : x.data[k] \in {1, -1}

\* C7: when no natural constraints are passed, the vector the converter
\* derives from them is the one it derives from a vector of ones: it is not
\* empty and its entries are 1 or -1.
C7_OnesWhenNotPassed ==
  passed.naturalConstraints = DefaultNaturalConstraints =>
    /\ dpc = "dual" => dual.ok /\ SignVector(dual.val[4])
    /\ dpc = "lppDual" => dual.ok /\ SignVector(dual.val[6])

====
